---- MODULE Spec2Model ----
(***************************************************************************)
(* State-machine model of the openglobus core: the per-tile Material       *)
(* (og/layer/Material.js) with the collaborators it calls, the Camera      *)
(* (og/camera/Camera.js), the Framebuffer render targets, the geodetic     *)
(* types LonLat, Extent and Sphere, and the Handler's animation loop       *)
(* (og/webgl/Handler.js).                                                  *)
(*                                                                         *)
(* Each component has its own specification over the shared variables; a   *)
(* component's actions leave the other component's variables unchanged.    *)
(***************************************************************************)
EXTENDS Integers, Sequences, FiniteSets, TLC

VARIABLES
    material,    \* the fields of one Material object
    segment,     \* the owning Segment: initialized flag and its node's id
    gl,          \* WebGL texture objects: how many were created, which deleted
    layerCalls,  \* calls the last Material operation made on a Layer
    lastOp,      \* the last operation run on the Material
    pre,         \* the Material fields and GPU state before the last operation, and
                 \* whether the operation before it was clear()
    camera,      \* pose, previous-frame snapshot and _moved flag of one Camera
    frame,       \* what the per-frame observer saw at the last checkMoveEnd
    fbs,         \* one Handler's GL state, canvas, framebuffer stack and targets
    fbLast,      \* the last Framebuffer operation and its arguments
    view,        \* view angle, aspect, view matrix and frustums of the Camera,
                 \* and the events of its last operation
    viewLast,    \* the last operation on the view and what it returned
    trial,       \* a pose, the pose mutators applied to it and the pose reached
    geo,         \* the last call on a LonLat, an Extent or a Sphere, its
                 \* arguments and its outcome
    loop         \* one Handler's animation loop and the last operation on it

matVars == <<material, segment, gl, layerCalls, lastOp, pre>>
camVars == <<camera, frame>>
fbVars == <<fbs, fbLast>>
viewVars == <<view, viewLast>>
vars == <<matVars, camVars, fbVars, viewVars, trial, geo, loop>>

----------------------------------------------------------------------------
(* Bounds of the model *)

\* most textures gl.createTexture hands out in one behaviour
MaxTextures == 2
\* most load requests a Layer issues for the Material between two clear()
MaxAttempts == 2
\* largest node id of the quadtree
MaxNodeId == 2
\* the eye stays within 0..MaxEye on the x axis
MaxEye == 1
\* most pose mutators applied to one starting pose
MaxOps == 2
\* most GPU objects (framebuffers, textures, renderbuffers) alive at a time
MaxObjects == 5
\* most targets on the framebuffer stack (the Stack itself holds 256)
MaxStack == 3
\* most color attachments of a target
MaxColors == 2
\* most coordinates in an array given to the Extent functions
MaxCoords == 2
\* most animation-frame requests of one Handler the browser holds at once
MaxRequests == 3

----------------------------------------------------------------------------
(* Values *)

\* JavaScript null for a texture handle (Material.js:24); handles are 1..n
NULL == 0

Layers == {"layerA", "layerB"}
Images == {"img"}
NodeIds == 1..MaxNodeId
Handles == 1..MaxTextures

\* texOffset of a Material that shows its own texture
IdentityTexOffset == <<0, 0, 1, 1>>
\* sub-rectangles of an ancestor's texture: any value other than the identity
\* (Material never computes with them, it only overwrites them)
AncestorTexOffsets == {<<0, 0, 2, 2>>, <<1, 0, 2, 2>>}

\* x || null
OrNull(x) == IF x = NULL THEN NULL ELSE x

\* textures created and not deleted
Live(g) == (1..g.created) \ g.deleted

----------------------------------------------------------------------------
(* Material *)

\* new Material(segment, layer)
Material_constructor(layer) ==
    [ layer |-> layer,
      isReady |-> FALSE,
      isLoading |-> FALSE,
      texture |-> NULL,
      pickingMask |-> NULL,
      textureExists |-> FALSE,
      appliedNodeId |-> 0,
      texOffset |-> IdentityTexOffset,
      loadingAttempts |-> 0,
      updateTexture |-> NULL,
      updatePickingMask |-> NULL,
      pickingReady |-> FALSE ]

\* what every operation on the Material records for the observer
Observe(op, calls) ==
    /\ lastOp' = op
    /\ layerCalls' = calls
    /\ pre' = [material |-> material, gl |-> gl, afterClear |-> (lastOp = "clear")]

\* the other component does not move
MaterialFrame == UNCHANGED <<camVars, fbVars, viewVars, trial, geo, loop>>

\* gl.createTexture(): a new texture object
gl_createTexture(g) == [g EXCEPT !.created = @ + 1]
\* gl.deleteTexture(t)
gl_deleteTexture(g, t) == [g EXCEPT !.deleted = @ \cup {t}]

\* Material.assignLayer(layer)
assignLayer(layer) ==
    /\ material' = [material EXCEPT !.layer = layer]
    /\ Observe("assignLayer", <<>>)
    /\ UNCHANGED <<segment, gl>>
    /\ MaterialFrame

\* Layer.abortMaterialLoading(material): the Layer cancels its own in-flight
\* transfer; it is not told to change any field of the Material
abortMaterialLoading(m) == m

\* abortLoading that also drops the loading flag itself
abortLoading_resetsLoading ==
    /\ material' = [abortMaterialLoading(material) EXCEPT !.isLoading = FALSE]
    /\ Observe("abortLoading",
               <<[fn |-> "abortMaterialLoading", layer |-> material.layer]>>)
    /\ UNCHANGED <<segment, gl>>
    /\ MaterialFrame

\* Material.abortLoading()
abortLoading ==
    /\ material' = abortMaterialLoading(material)
    /\ Observe("abortLoading",
               <<[fn |-> "abortMaterialLoading", layer |-> material.layer]>>)
    /\ UNCHANGED <<segment, gl>>
    /\ MaterialFrame

\* applyImage without the segment.initialized guard
applyImage_unguarded(img) ==
    /\ gl' = gl_createTexture(gl)
    /\ material' = [material EXCEPT
           !.updateTexture = NULL,
           !.texture = gl.created + 1,
           !.appliedNodeId = segment.nodeId,
           !.isReady = TRUE,
           !.pickingReady = TRUE,
           !.textureExists = TRUE,
           !.isLoading = FALSE,
           !.texOffset = IdentityTexOffset]
    /\ Observe("applyImage", <<>>)
    /\ UNCHANGED segment
    /\ MaterialFrame

\* applyImage that keeps the image and leaves the texture for later
applyImage_deferTexture(img) ==
    /\ IF segment.initialized
       THEN material' = [material EXCEPT
                !.updateTexture = NULL,
                !.appliedNodeId = segment.nodeId,
                !.isReady = TRUE,
                !.pickingReady = TRUE,
                !.textureExists = TRUE,
                !.isLoading = FALSE,
                !.texOffset = IdentityTexOffset]
       ELSE UNCHANGED material
    /\ Observe("applyImage", <<>>)
    /\ UNCHANGED <<segment, gl>>
    /\ MaterialFrame

\* Material.applyImage(img)
applyImage(img) ==
    /\ IF segment.initialized
       THEN /\ gl' = gl_createTexture(gl)
            /\ material' = [material EXCEPT
                   !.updateTexture = NULL,
                   !.texture = gl.created + 1,
                   !.appliedNodeId = segment.nodeId,
                   !.isReady = TRUE,
                   !.pickingReady = TRUE,
                   !.textureExists = TRUE,
                   !.isLoading = FALSE,
                   !.texOffset = IdentityTexOffset]
       ELSE UNCHANGED <<material, gl>>
    /\ Observe("applyImage", <<>>)
    /\ UNCHANGED segment
    /\ MaterialFrame

\* applyTexture that forgets isLoading = false
applyTexture_keepsLoading(texture, pickingMask) ==
    /\ IF segment.initialized
       THEN material' = [material EXCEPT
                !.texture = texture,
                !.updateTexture = NULL,
                !.pickingMask = OrNull(pickingMask),
                !.updatePickingMask = NULL,
                !.isReady = TRUE,
                !.pickingReady = TRUE,
                !.textureExists = TRUE,
                !.appliedNodeId = segment.nodeId,
                !.texOffset = IdentityTexOffset]
       ELSE UNCHANGED material
    /\ Observe("applyTexture", <<>>)
    /\ UNCHANGED <<segment, gl>>
    /\ MaterialFrame

\* applyTexture that forgets to reset texOffset
applyTexture_keepsTexOffset(texture, pickingMask) ==
    /\ IF segment.initialized
       THEN material' = [material EXCEPT
                !.texture = texture,
                !.updateTexture = NULL,
                !.pickingMask = OrNull(pickingMask),
                !.updatePickingMask = NULL,
                !.isReady = TRUE,
                !.pickingReady = TRUE,
                !.textureExists = TRUE,
                !.isLoading = FALSE,
                !.appliedNodeId = segment.nodeId]
       ELSE UNCHANGED material
    /\ Observe("applyTexture", <<>>)
    /\ UNCHANGED <<segment, gl>>
    /\ MaterialFrame

\* Material.applyTexture(texture, pickingMask)
applyTexture(texture, pickingMask) ==
    /\ IF segment.initialized
       THEN material' = [material EXCEPT
                !.texture = texture,
                !.updateTexture = NULL,
                !.pickingMask = OrNull(pickingMask),
                !.updatePickingMask = NULL,
                !.isReady = TRUE,
                !.pickingReady = TRUE,
                !.textureExists = TRUE,
                !.isLoading = FALSE,
                !.appliedNodeId = segment.nodeId,
                !.texOffset = IdentityTexOffset]
       ELSE UNCHANGED material
    /\ Observe("applyTexture", <<>>)
    /\ UNCHANGED <<segment, gl>>
    /\ MaterialFrame

\* textureNotExists that forgets textureExists = false
textureNotExists_keepsTextureExists ==
    /\ IF segment.initialized
       THEN material' = [material EXCEPT
                !.pickingReady = TRUE,
                !.isLoading = FALSE,
                !.isReady = TRUE]
       ELSE UNCHANGED material
    /\ Observe("textureNotExists", <<>>)
    /\ UNCHANGED <<segment, gl>>
    /\ MaterialFrame

\* textureNotExists that counts the failed attempt itself
textureNotExists_countsAttempt ==
    /\ IF segment.initialized
       THEN material' = [material EXCEPT
                !.pickingReady = TRUE,
                !.isLoading = FALSE,
                !.isReady = TRUE,
                !.textureExists = FALSE,
                !.loadingAttempts = @ + 1]
       ELSE UNCHANGED material
    /\ Observe("textureNotExists", <<>>)
    /\ UNCHANGED <<segment, gl>>
    /\ MaterialFrame

\* Material.textureNotExists()
textureNotExists ==
    /\ IF segment.initialized
       THEN material' = [material EXCEPT
                !.pickingReady = TRUE,
                !.isLoading = FALSE,
                !.isReady = TRUE,
                !.textureExists = FALSE]
       ELSE UNCHANGED material
    /\ Observe("textureNotExists", <<>>)
    /\ UNCHANGED <<segment, gl>>
    /\ MaterialFrame

\* Layer.clearMaterial(material): releases the texture the Material owns and
\* returns the Material to Empty
clearMaterial_material(m) ==
    [m EXCEPT !.texture = NULL,
              !.isReady = FALSE,
              !.isLoading = FALSE,
              !.textureExists = FALSE]

clearMaterial_gl(m, g) ==
    IF m.textureExists /\ m.texture \in Live(g)
    THEN gl_deleteTexture(g, m.texture)
    ELSE g

\* clear that resets the counter and does not call the Layer
clear_onlyCounter ==
    /\ material' = [material EXCEPT !.loadingAttempts = 0]
    /\ Observe("clear", <<>>)
    /\ UNCHANGED <<segment, gl>>
    /\ MaterialFrame

\* clear that calls the Layer and keeps the counter
clear_keepsAttempts ==
    /\ material' = clearMaterial_material(material)
    /\ gl' = clearMaterial_gl(material, gl)
    /\ Observe("clear", <<[fn |-> "clearMaterial", layer |-> material.layer]>>)
    /\ UNCHANGED segment
    /\ MaterialFrame

\* Material.clear()
clear ==
    /\ material' = clearMaterial_material([material EXCEPT !.loadingAttempts = 0])
    /\ gl' = clearMaterial_gl(material, gl)
    /\ Observe("clear", <<[fn |-> "clearMaterial", layer |-> material.layer]>>)
    /\ UNCHANGED segment
    /\ MaterialFrame

----------------------------------------------------------------------------
(* What the Layer, the handler and the quadtree do around the Material *)

\* the Layer requests imagery for a Material that is not yet ready
loadMaterial ==
    /\ ~material.isReady
    /\ material.loadingAttempts < MaxAttempts
    /\ material' = [material EXCEPT !.isLoading = TRUE,
                                    !.loadingAttempts = @ + 1]
    /\ Observe("loadMaterial", <<>>)
    /\ UNCHANGED <<segment, gl>>
    /\ MaterialFrame

\* Handler.createTexture(image), called by a Layer that builds its own texture
createTexture(image) ==
    /\ gl.created < MaxTextures
    /\ gl' = gl_createTexture(gl)
    /\ Observe("createTexture", <<>>)
    /\ UNCHANGED <<material, segment>>
    /\ MaterialFrame

\* a not yet ready Material shows the part texOffset of an ancestor's texture
inheritTexture(t, offset, nodeId) ==
    /\ ~material.isReady
    /\ ~material.textureExists
    /\ material' = [material EXCEPT !.texture = t,
                                    !.texOffset = offset,
                                    !.appliedNodeId = nodeId]
    /\ Observe("inheritTexture", <<>>)
    /\ UNCHANGED <<segment, gl>>
    /\ MaterialFrame

\* the tile is discarded: its segment is no longer initialized
destroySegment ==
    /\ segment.initialized
    /\ segment' = [segment EXCEPT !.initialized = FALSE]
    /\ Observe("destroySegment", <<>>)
    /\ UNCHANGED <<material, gl>>
    /\ MaterialFrame

MaterialNext ==
    \/ \E l \in Layers : assignLayer(l)
    \/ abortLoading
    \/ \E img \in Images :
           (segment.initialized => gl.created < MaxTextures) /\ applyImage(img)
    \/ \E t \in Live(gl), pm \in Live(gl) \cup {NULL} : applyTexture(t, pm)
    \/ textureNotExists
    \/ clear
    \/ loadMaterial
    \/ \E img \in Images : createTexture(img)
    \/ \E t \in Live(gl), o \in AncestorTexOffsets, id \in NodeIds \ {segment.nodeId} :
           inheritTexture(t, o, id)
    \/ destroySegment

----------------------------------------------------------------------------
(* Vec3: vectors are <<x, y, z>>.  Coordinates are integers; the angles used *)
(* are multiples of 90 degrees, for which cos and sin are taken as exact.    *)

Vec3(x, y, z) == <<x, y, z>>

\* Vec3.equal(p)
Vec3_equal(a, b) == a[1] = b[1] /\ a[2] = b[2] /\ a[3] = b[3]

\* Vec3.cross(b)
Vec3_cross(a, b) ==
    <<a[2] * b[3] - a[3] * b[2], a[3] * b[1] - a[1] * b[3], a[1] * b[2] - a[2] * b[1]>>

\* Vec3.dot(b)
Vec3_dot(a, b) == a[1] * b[1] + a[2] * b[2] + a[3] * b[3]

\* Vec3.add, Vec3.sub, Vec3.scale, Vec3.ZERO, Vec3.UP
Vec3_add(a, b) == <<a[1] + b[1], a[2] + b[2], a[3] + b[3]>>
Vec3_sub(a, b) == <<a[1] - b[1], a[2] - b[2], a[3] - b[3]>>
Vec3_scale(a, k) == <<a[1] * k, a[2] * k, a[3] * k>>
Vec3_ZERO == <<0, 0, 0>>
Vec3_UP == <<0, 1, 0>>

\* the integer k with k * k = n, for the n that have one
ExactSqrt(n) == CHOOSE k \in 0..n : k * k = n
HasExactSqrt(n) == \E k \in 0..n : k * k = n

\* Vec3.normalize(), for the vectors whose normalized form is again integral
Normalizable(a) ==
    /\ Vec3_dot(a, a) > 0
    /\ HasExactSqrt(Vec3_dot(a, a))
    /\ \A i \in 1..3 : a[i] % ExactSqrt(Vec3_dot(a, a)) = 0

Vec3_normalize(a) ==
    LET len == ExactSqrt(Vec3_dot(a, a))
    IN  <<a[1] \div len, a[2] \div len, a[3] \div len>>

\* Math.cos and Math.sin of an angle in degrees
Cos(angle) == CASE angle % 360 = 0 -> 1
                [] angle % 360 = 90 -> 0
                [] angle % 360 = 180 -> -1
                [] angle % 360 = 270 -> 0
Sin(angle) == CASE angle % 360 = 0 -> 0
                [] angle % 360 = 90 -> 1
                [] angle % 360 = 180 -> 0
                [] angle % 360 = 270 -> -1

\* Math.min
Min2(a, b) == IF a < b THEN a ELSE b

\* 1000 tan^2 of the angles, in degrees, that atan is rounded down to
TanSqMilli == [a \in {0, 15, 30, 45, 60, 75} |->
                  CASE a = 0 -> 0 [] a = 15 -> 72 [] a = 30 -> 334
                    [] a = 45 -> 1000 [] a = 60 -> 3000 [] a = 75 -> 13929]

\* Math.atan(sqrt(numSq / denSq)) in degrees, rounded down to a multiple of 15;
\* a zero denominator gives Infinity, whose atan is 90 degrees
AtanDeg(numSq, denSq) ==
    IF denSq = 0 THEN (IF numSq = 0 THEN 0 ELSE 90)
    ELSE LET below == {a \in DOMAIN TanSqMilli : TanSqMilli[a] * denSq <= 1000 * numSq}
         IN  CHOOSE a \in below : \A b \in below : b <= a

----------------------------------------------------------------------------
(* Camera *)

Pose(c) == <<c.eye, c.u, c.v, c.n>>

\* Camera.set(eye, look, up)
Camera_set(c, eye, look, up) ==
    LET n == <<eye[1] - look[1], eye[2] - look[2], eye[3] - look[3]>>
        u == Vec3_cross(up, n)
        nn == Vec3_normalize(n)
        un == Vec3_normalize(u)
    IN  [c EXCEPT !.eye = eye, !.n = nn, !.u = un, !.v = Vec3_cross(nn, un)]

\* Camera._init(options), options taken as the defaults
Camera_init(c) == Camera_set(c, Vec3(0, 0, 1), Vec3(0, 0, 0), Vec3(0, 1, 0))

\* new Camera(renderer, options): the fields checkMoveEnd and the pose
\* mutators use.  handlers is the number of registered moveend handlers.
Camera_constructor(renderer, handlers) ==
    LET c == [ eye |-> Vec3(0, 0, 0),
               u |-> Vec3(0, 1, 0),
               v |-> Vec3(1, 0, 0),
               n |-> Vec3(0, 0, 1),
               pu |-> Vec3(0, 1, 0),
               pv |-> Vec3(1, 0, 0),
               pn |-> Vec3(0, 0, 1),
               peye |-> Vec3(0, 0, 0),
               moved |-> FALSE,
               moveendHandlers |-> handlers ]
    IN  IF renderer THEN Camera_init(c) ELSE c

\* checkMoveEnd that leaves _moved set on a stationary frame
Camera_checkMoveEnd_keepsMoved(c) ==
    LET same == /\ Vec3_equal(c.peye, c.eye)
                /\ Vec3_equal(c.pu, c.u)
                /\ Vec3_equal(c.pv, c.v)
                /\ Vec3_equal(c.pn, c.n)
        moved == IF c.moveendHandlers > 0
                 THEN (IF same THEN c.moved ELSE TRUE)
                 ELSE c.moved
        dispatched == IF c.moveendHandlers > 0 /\ same /\ c.moved THEN 1 ELSE 0
    IN  [ camera |-> [c EXCEPT !.moved = moved,
                               !.pu = c.u, !.pv = c.v, !.pn = c.n, !.peye = c.eye],
          dispatched |-> dispatched ]

\* Camera.checkMoveEnd(): the camera after the call and the number of moveend
\* events it dispatched
Camera_checkMoveEnd(c) ==
    LET same == /\ Vec3_equal(c.peye, c.eye)
                /\ Vec3_equal(c.pu, c.u)
                /\ Vec3_equal(c.pv, c.v)
                /\ Vec3_equal(c.pn, c.n)
        moved == IF c.moveendHandlers > 0
                 THEN (IF same THEN FALSE ELSE TRUE)
                 ELSE c.moved
        dispatched == IF c.moveendHandlers > 0 /\ same /\ c.moved THEN 1 ELSE 0
    IN  [ camera |-> [c EXCEPT !.moved = moved,
                               !.pu = c.u, !.pv = c.v, !.pn = c.n, !.peye = c.eye],
          dispatched |-> dispatched ]

\* Camera.slide(du, dv, dn)
Camera_slide(c, du, dv, dn) ==
    [c EXCEPT !.eye = << @[1] + du * c.u[1] + dv * c.v[1] + dn * c.n[1],
                         @[2] + du * c.u[2] + dv * c.v[2] + dn * c.n[2],
                         @[3] + du * c.u[3] + dv * c.v[3] + dn * c.n[3] >>]

\* cs * a - sn * b and sn * a + cs * b, componentwise
RotA(cs, sn, a, b) == <<cs * a[1] - sn * b[1], cs * a[2] - sn * b[2], cs * a[3] - sn * b[3]>>
RotB(cs, sn, a, b) == <<sn * a[1] + cs * b[1], sn * a[2] + cs * b[2], sn * a[3] + cs * b[3]>>

\* Camera.roll(angle)
Camera_roll(c, angle) ==
    [c EXCEPT !.u = RotA(Cos(angle), Sin(angle), c.u, c.v),
              !.v = RotB(Cos(angle), Sin(angle), c.u, c.v)]

\* pitch() that turns u and v about n, as roll() does
Camera_pitch_turnsU(c, angle) ==
    [c EXCEPT !.u = RotA(Cos(angle), Sin(angle), c.u, c.v),
              !.v = RotB(Cos(angle), Sin(angle), c.u, c.v)]

\* Camera.pitch(angle)
Camera_pitch(c, angle) ==
    [c EXCEPT !.n = RotA(Cos(angle), Sin(angle), c.n, c.v),
              !.v = RotB(Cos(angle), Sin(angle), c.n, c.v)]

\* yaw() that also moves the eye one step along n
Camera_yaw_movesEye(c, angle) ==
    [c EXCEPT !.eye = Vec3_add(@, c.n),
              !.u = RotA(Cos(angle), Sin(angle), c.u, c.n),
              !.n = RotB(Cos(angle), Sin(angle), c.u, c.n)]

\* Camera.yaw(angle)
Camera_yaw(c, angle) ==
    [c EXCEPT !.u = RotA(Cos(angle), Sin(angle), c.u, c.n),
              !.n = RotB(Cos(angle), Sin(angle), c.u, c.n)]

\* the eye positions of the model
EyeInRange(e) == e[1] \in 0..MaxEye /\ e[2] = 0 /\ e[3] \in 0..1

SlideSteps == {-1, 0, 1}
Angles == {90, 180, 270}

\* the other component does not move
CameraFrame == UNCHANGED <<matVars, fbVars, view, trial, geo, loop>>

\* a pose mutator ran between two frames; the observer notes whether the pose
\* has ever been changed since the Camera was constructed, and that the last
\* operation on the Camera was a pose mutator
Mutate(c) ==
    /\ camera' = c
    /\ viewLast' = [op |-> "mutate", result |-> <<>>, afterSet |-> FALSE]
    /\ frame' = [frame EXCEPT !.op = "mutate", !.dispatched = 0,
                              !.changed = @ \/ Pose(c) # Pose(camera)]
    /\ CameraFrame

slide(du, dv, dn) ==
    /\ EyeInRange(Camera_slide(camera, du, dv, dn).eye)
    /\ Mutate(Camera_slide(camera, du, dv, dn))

roll(angle) == Mutate(Camera_roll(camera, angle))

pitch(angle) == Mutate(Camera_pitch(camera, angle))

yaw(angle) == Mutate(Camera_yaw(camera, angle))

\* one frame: the renderer calls camera.checkMoveEnd().  The observer keeps the
\* pose it saw at this frame and whether it differed from the frame before.
checkMoveEnd ==
    /\ camera' = Camera_checkMoveEnd(camera).camera
    /\ frame' = [ op |-> "checkMoveEnd",
                  dispatched |-> Camera_checkMoveEnd(camera).dispatched,
                  pose |-> Pose(camera),
                  differed |-> Pose(camera) # frame.pose,
                  differedBefore |-> frame.differed,
                  changed |-> frame.changed ]
    /\ UNCHANGED viewLast
    /\ CameraFrame

CameraNext ==
    \/ checkMoveEnd
    \/ \E du \in SlideSteps, dv \in SlideSteps, dn \in SlideSteps : slide(du, dv, dn)
    \/ \E a \in Angles : roll(a)
    \/ \E a \in Angles : pitch(a)
    \/ \E a \in Angles : yaw(a)

----------------------------------------------------------------------------
(* Framebuffer (render target) and the Handler's framebuffer stack.          *)
(* The state st is [gl, canvas, stack, targets]: gl holds the FRAMEBUFFER    *)
(* binding, the viewport and the live GPU objects; stack is the sequence of  *)
(* targets pushed on handler.framebufferStack; targets maps a target to its  *)
(* fields.                                                                   *)

Targets == {"A", "B"}
\* data of the stack's head node: no target
NoTarget == "none"
\* the sizes setSize is called with
Sizes == {<<512, 256>>}
\* handler.canvas.width, handler.canvas.height
CanvasSize == <<1024, 768>>

\* Stack.current().data
Stack_current(stack) == IF stack = <<>> THEN NoTarget ELSE stack[Len(stack)]
\* Stack.push(data)
Stack_push(stack, t) == Append(stack, t)
\* Stack.popPrev(): the stack without its top, and the data of the new top
Stack_popPrev(stack) ==
    LET rest == SubSeq(stack, 1, Len(stack) - 1)
    IN  [stack |-> rest, data |-> Stack_current(rest)]

\* a GPU object allocated by gl.create*: a new name, with the size it was
\* given storage for; by names the target whose init() allocated it
NewId(objs) == CHOOSE i \in 1..(Cardinality(objs) + 1) : \A o \in objs : o.id # i
gl_create(st, by, kind, w, h) ==
    [st EXCEPT !.gl.objs = @ \cup {[id |-> NewId(@), kind |-> kind, w |-> w, h |-> h,
                                    by |-> by]}]
\* gl.delete*(name): null and names that are not alive are ignored; deleting
\* the bound framebuffer leaves the default framebuffer bound
gl_delete(st, kind, id) ==
    [st EXCEPT !.gl.objs = {o \in @ : ~(o.id = id /\ o.kind = kind)},
               !.gl.bound = IF kind = "fbo" /\ @ = id /\ id # NULL THEN NULL ELSE @]
\* gl.bindFramebuffer(gl.FRAMEBUFFER, fbo)
gl_bindFramebuffer(st, fbo) == [st EXCEPT !.gl.bound = fbo]
\* gl.viewport(0, 0, w, h)
gl_viewport(st, w, h) == [st EXCEPT !.gl.viewport = <<0, 0, w, h>>]

\* new Framebuffer(handler, options)
Framebuffer_constructor(w, h, useDepth, isBare, size) ==
    [ fbo |-> NULL,
      isBare |-> isBare,
      depthRenderbuffer |-> NULL,
      width |-> w,
      height |-> h,
      useDepth |-> useDepth,
      active |-> FALSE,
      size |-> size,
      textures |-> [i \in 1..size |-> NULL] ]

\* the loop of destroy(): gl.deleteTexture(this.textures[i]) for i < length
RECURSIVE DeleteTextures(_, _, _)
DeleteTextures(st, t, i) ==
    IF i > Len(st.targets[t].textures) THEN st
    ELSE DeleteTextures(gl_delete(st, "tex", st.targets[t].textures[i]), t, i + 1)

\* Framebuffer.destroy()
Framebuffer_destroy(st, t) ==
    LET s1 == DeleteTextures(st, t, 1)
        s2 == [s1 EXCEPT !.targets[t].textures = [i \in 1..s1.targets[t].size |-> NULL]]
        s3 == gl_delete(s2, "fbo", s2.targets[t].fbo)
        s4 == gl_delete(s3, "rb", s3.targets[t].depthRenderbuffer)
    IN  [s4 EXCEPT !.targets[t].depthRenderbuffer = NULL,
                   !.targets[t].fbo = NULL,
                   !.targets[t].active = FALSE]

\* the loop of init(): textures[i] = textures[i] || createEmptyTexture2DExt(w, h)
RECURSIVE InitTextures(_, _, _)
InitTextures(st, t, i) ==
    IF i > Len(st.targets[t].textures) THEN st
    ELSE IF st.targets[t].textures[i] # NULL THEN InitTextures(st, t, i + 1)
    ELSE LET s1 == gl_create(st, t, "tex", st.targets[t].width, st.targets[t].height)
         IN  InitTextures([s1 EXCEPT !.targets[t].textures[i] = NewId(st.gl.objs)],
                          t, i + 1)

\* Framebuffer.init()
Framebuffer_init(st, t) ==
    LET s1 == gl_create(st, t, "fbo", 0, 0)
        s2 == [s1 EXCEPT !.targets[t].fbo = NewId(st.gl.objs)]
        s3 == gl_bindFramebuffer(s2, s2.targets[t].fbo)
        s4 == IF ~s3.targets[t].isBare THEN InitTextures(s3, t, 1) ELSE s3
        s5 == IF s4.targets[t].useDepth
              THEN [gl_create(s4, t, "rb", s4.targets[t].width, s4.targets[t].height)
                       EXCEPT !.targets[t].depthRenderbuffer = NewId(s4.gl.objs)]
              ELSE s4
    IN  gl_bindFramebuffer(s5, NULL)

\* setSize() that leaves the viewport alone
Framebuffer_setSize_noViewport(st, t, w, h, forceDestroy) ==
    LET s1 == [st EXCEPT !.targets[t].width = w, !.targets[t].height = h]
    IN  IF s1.targets[t].useDepth \/ forceDestroy
        THEN Framebuffer_init(Framebuffer_destroy(s1, t), t)
        ELSE s1

\* Framebuffer.setSize(width, height, forceDestroy)
Framebuffer_setSize(st, t, w, h, forceDestroy) ==
    LET s1 == [st EXCEPT !.targets[t].width = w, !.targets[t].height = h]
        s2 == IF s1.targets[t].active THEN gl_viewport(s1, w, h) ELSE s1
    IN  IF s2.targets[t].useDepth \/ forceDestroy
        THEN Framebuffer_init(Framebuffer_destroy(s2, t), t)
        ELSE s2

\* activate() that does not mark the previous top inactive
Framebuffer_activate_keepsPrevious(st, t) ==
    LET s1 == gl_bindFramebuffer(gl_bindFramebuffer(st, NULL), st.targets[t].fbo)
        s2 == gl_viewport(s1, s1.targets[t].width, s1.targets[t].height)
        s3 == [s2 EXCEPT !.targets[t].active = TRUE]
    IN  [s3 EXCEPT !.stack = Stack_push(@, t)]

\* Framebuffer.activate()
Framebuffer_activate(st, t) ==
    LET s1 == gl_bindFramebuffer(gl_bindFramebuffer(st, NULL), st.targets[t].fbo)
        s2 == gl_viewport(s1, s1.targets[t].width, s1.targets[t].height)
        s3 == [s2 EXCEPT !.targets[t].active = TRUE]
        c == Stack_current(s3.stack)
        s4 == IF c # NoTarget THEN [s3 EXCEPT !.targets[c].active = FALSE] ELSE s3
    IN  [s4 EXCEPT !.stack = Stack_push(@, t)]

\* deactivate() that always restores the canvas viewport
Framebuffer_deactivate_toCanvas(st, t) ==
    LET s1 == gl_bindFramebuffer(st, NULL)
        s2 == [s1 EXCEPT !.targets[t].active = FALSE]
        popped == Stack_popPrev(s2.stack)
        f == popped.data
        s3 == [s2 EXCEPT !.stack = popped.stack]
    IN  IF f # NoTarget
        THEN gl_viewport(gl_bindFramebuffer(s3, s3.targets[f].fbo),
                         s3.canvas[1], s3.canvas[2])
        ELSE gl_viewport(s3, s3.canvas[1], s3.canvas[2])

\* Framebuffer.deactivate()
Framebuffer_deactivate(st, t) ==
    LET s1 == gl_bindFramebuffer(st, NULL)
        s2 == [s1 EXCEPT !.targets[t].active = FALSE]
        popped == Stack_popPrev(s2.stack)
        f == popped.data
        s3 == [s2 EXCEPT !.stack = popped.stack]
    IN  IF f # NoTarget
        THEN gl_viewport(gl_bindFramebuffer(s3, s3.targets[f].fbo),
                         s3.targets[f].width, s3.targets[f].height)
        ELSE gl_viewport(s3, s3.canvas[1], s3.canvas[2])

\* GPU objects one init() of target t may allocate
InitNeeds(st, t) == 2 + st.targets[t].size

\* the other components do not move
FramebufferFrame == UNCHANGED <<matVars, camVars, viewVars, trial, geo, loop>>

\* what every Framebuffer operation records for the observer
FbObserve(op, t, args) == fbLast' = [op |-> op, target |-> t, args |-> args]

init(t) ==
    /\ Cardinality(fbs.gl.objs) + InitNeeds(fbs, t) <= MaxObjects
    /\ fbs' = Framebuffer_init(fbs, t)
    /\ FbObserve("init", t, <<>>)
    /\ FramebufferFrame

destroy(t) ==
    /\ fbs' = Framebuffer_destroy(fbs, t)
    /\ FbObserve("destroy", t, <<>>)
    /\ FramebufferFrame

setSize(t, w, h, forceDestroy) ==
    /\ Cardinality(fbs.gl.objs) + InitNeeds(fbs, t) <= MaxObjects
    /\ fbs' = Framebuffer_setSize(fbs, t, w, h, forceDestroy)
    /\ FbObserve("setSize", t, <<w, h, forceDestroy>>)
    /\ FramebufferFrame

activate(t) ==
    /\ Len(fbs.stack) < MaxStack
    /\ fbs' = Framebuffer_activate(fbs, t)
    /\ FbObserve("activate", t, <<>>)
    /\ FramebufferFrame

\* calls nest properly: only the target on top of the stack is deactivated
deactivate(t) ==
    /\ Stack_current(fbs.stack) = t
    /\ fbs' = Framebuffer_deactivate(fbs, t)
    /\ FbObserve("deactivate", t, <<>>)
    /\ FramebufferFrame

FramebufferNext ==
    \/ \E t \in Targets : init(t)
    \/ \E t \in Targets : destroy(t)
    \/ \E t \in Targets, wh \in Sizes, f \in BOOLEAN : setSize(t, wh[1], wh[2], f)
    \/ \E t \in Targets : activate(t)
    \/ \E t \in Targets : deactivate(t)

\* a Handler whose canvas has its size, with nothing bound and an empty stack,
\* and two targets as constructed
FbsInit(a, b) ==
    [ gl |-> [bound |-> NULL, viewport |-> <<0, 0, CanvasSize[1], CanvasSize[2]>>,
              objs |-> {}],
      canvas |-> CanvasSize,
      stack |-> <<>>,
      targets |-> [t \in Targets |-> IF t = "A" THEN a ELSE b] ]

FbsIdle ==
    FbsInit(Framebuffer_constructor(256, 256, TRUE, FALSE, 1),
            Framebuffer_constructor(512, 512, TRUE, FALSE, 1))

FbLastInit == [op |-> "constructor", target |-> NoTarget, args |-> <<>>]

----------------------------------------------------------------------------
(* Camera: view matrix, projection and frustums.                             *)
(* Matrices are kept as the values they are computed from: a projection      *)
(* matrix as <<angle, aspect, near, far>>, a product as the pair of its      *)
(* factors, an inverse as the matrix it inverts.                             *)

Aspects == {1, 2}
ViewAngles == {38, 60}
\* options.frustums: absent, an empty array, or two cascades
CascadeOptions ==
    { [given |-> FALSE, frustums |-> <<>>],
      [given |-> TRUE, frustums |-> <<>>],
      [given |-> TRUE, frustums |-> <<<<1, 100>>, <<100, 10000>>>>] }
\* canvas.clientWidth, canvas.clientHeight
ClientSize == <<1024, 768>>
\* radii given to projectedSize()
Radii == {1, 2, 3}
\* points given to project() and screen points given to unproject()
ProjectPoints == {<<0, 0, 0>>, <<1, 0, 0>>}
ScreenPoints == {<<0, 0>>}
\* new Mat4()
NoMatrix == <<>>

\* new Frustum({fov, aspect, near, far})
Frustum_constructor(fov, aspect, near, far) ==
    [ near |-> near, far |-> far, cameraFrustumIndex |-> 0,
      projectionMatrix |-> <<fov, aspect, near, far>>,
      inverseProjectionMatrix |-> [inverse |-> <<fov, aspect, near, far>>],
      projectionViewMatrix |-> NoMatrix,
      inverseProjectionViewMatrix |-> NoMatrix ]

\* Frustum.setProjectionMatrix(angle, aspect, near, far)
Frustum_setProjectionMatrix(f, angle, aspect, near, far) ==
    [f EXCEPT !.projectionMatrix = <<angle, aspect, near, far>>,
              !.inverseProjectionMatrix = [inverse |-> <<angle, aspect, near, far>>]]

\* Frustum.setViewMatrix(viewMatrix)
Frustum_setViewMatrix(f, viewMatrix) ==
    LET pv == [projection |-> f.projectionMatrix, view |-> viewMatrix]
    IN  [f EXCEPT !.projectionViewMatrix = pv,
                  !.inverseProjectionViewMatrix = [inverse |-> pv]]

\* update() that writes the translation without negating it
ViewMatrix_unnegated(c) ==
    << c.u[1], c.v[1], c.n[1], 0,
       c.u[2], c.v[2], c.n[2], 0,
       c.u[3], c.v[3], c.n[3], 0,
       Vec3_dot(c.eye, c.u), Vec3_dot(c.eye, c.v), Vec3_dot(c.eye, c.n), 1 >>

\* the 16 entries update() writes to _viewMatrix
ViewMatrix(c) ==
    << c.u[1], c.v[1], c.n[1], 0,
       c.u[2], c.v[2], c.n[2], 0,
       c.u[3], c.v[3], c.n[3], 0,
       -Vec3_dot(c.eye, c.u), -Vec3_dot(c.eye, c.v), -Vec3_dot(c.eye, c.n), 1 >>

\* renderer.assignPickingColor(fr): the k-th frustum of the camera is given
\* a colour no other frustum has, as _pickingColorU
Renderer_assignPickingColor(fr, k) ==
    [n \in DOMAIN fr \cup {"pickingColorU"} |->
        IF n = "pickingColorU" THEN <<k, 0, 0>> ELSE fr[n]]

\* the constructor's loop without the cascade tag
BuildFrustums_untagged(frustums, cascades, viewAngle, aspect) ==
    frustums \o [i \in 1..Len(cascades) |->
                    Renderer_assignPickingColor(
                        Frustum_constructor(viewAngle, aspect, cascades[i][1],
                                            cascades[i][2]),
                        i)]

\* the frustums the constructor builds from options.frustums
RECURSIVE BuildFrustums(_, _, _, _)
BuildFrustums(frustums, cascades, viewAngle, aspect) ==
    IF cascades = <<>> THEN frustums
    ELSE LET fi == Head(cascades)
             fr == [Frustum_constructor(viewAngle, aspect, fi[1], fi[2])
                       EXCEPT !.cameraFrustumIndex = Len(frustums)]
         IN  BuildFrustums(
                 Append(frustums, Renderer_assignPickingColor(fr, Len(frustums) + 1)),
                 Tail(cascades), viewAngle, aspect)

\* the loop's nearFarArr.push.apply(nearFarArr, [fi[0], fi[1]])
RECURSIVE PushNearFar(_, _)
PushNearFar(nearFarArr, cascades) ==
    IF cascades = <<>> THEN nearFarArr
    ELSE PushNearFar(nearFarArr \o <<Head(cascades)[1], Head(cascades)[2]>>,
                     Tail(cascades))

\* frustumColors.push.apply(frustumColors, fr._pickingColorU), for each
\* frustum in turn
RECURSIVE PushColors(_, _)
PushColors(frustumColors, frustums) ==
    IF frustums = <<>> THEN frustumColors
    ELSE PushColors(frustumColors \o Head(frustums).pickingColorU, Tail(frustums))

\* an event seen by the frustums and the viewchange handlers
SetViewMatrixEvent(i, m) == [ev |-> "setViewMatrix", frustum |-> i, viewMatrix |-> m]
ViewChangeEvent == [ev |-> "viewchange", frustum |-> 0, viewMatrix |-> NoMatrix]
UpdateEvent == [ev |-> "update", frustum |-> 0, viewMatrix |-> NoMatrix]

\* the loop of update(): frustums[i].setViewMatrix(this._viewMatrix)
RECURSIVE SetViewMatrices(_, _)
SetViewMatrices(v, i) ==
    IF i > Len(v.frustums) THEN v
    ELSE SetViewMatrices(
             [v EXCEPT !.frustums[i] = Frustum_setViewMatrix(@, v.viewMatrix),
                       !.events = Append(@, SetViewMatrixEvent(i - 1, v.viewMatrix))],
             i + 1)

\* the multiple of 65536 a coordinate is split at, and what is left of it
DoubleHigh(x) == IF x >= 0 THEN (x \div 65536) * 65536 ELSE -(((-x) \div 65536) * 65536)
DoubleLow(x) == x - DoubleHigh(x)

\* Vec3.doubleToTwoFloat32Array(v, high, low)
Vec3_doubleToTwoFloat32Array(v) ==
    [ high |-> <<DoubleHigh(v[1]), DoubleHigh(v[2]), DoubleHigh(v[3])>>,
      low |-> <<DoubleLow(v[1]), DoubleLow(v[2]), DoubleLow(v[3])>> ]

\* Mat4.toMatrix3(): the upper left 3 x 3 entries
Mat4_toMatrix3(m) == <<m[1], m[2], m[3], m[5], m[6], m[7], m[9], m[10], m[11]>>

\* update() that dispatches viewchange before the frustums are given the matrix
Camera_update_dispatchFirst(v, c) ==
    LET v1 == [v EXCEPT !.events = Append(@, UpdateEvent), !.viewMatrix = ViewMatrix(c)]
        v2 == [v1 EXCEPT !.events = Append(@, ViewChangeEvent)]
    IN  SetViewMatrices(v2, 1)

\* Camera.update()
Camera_update(v, c) ==
    LET v1 == [v EXCEPT !.events = Append(@, UpdateEvent),
                        !.eyeHigh = Vec3_doubleToTwoFloat32Array(c.eye).high,
                        !.eyeLow = Vec3_doubleToTwoFloat32Array(c.eye).low,
                        !.viewMatrix = ViewMatrix(c),
                        !.normalMatrix = Mat4_toMatrix3(ViewMatrix(c))]
        v2 == SetViewMatrices(v1, 1)
    IN  [v2 EXCEPT !.events = Append(@, ViewChangeEvent)]

\* the loop of _setProj(): frustums[i].setProjectionMatrix(angle, aspect, near, far)
Camera_setProj(v, angle, aspect) ==
    [v EXCEPT !.viewAngle = angle,
              !.aspect = aspect,
              !.projSizeConst = Min2(ClientSize[1], ClientSize[2]) \div angle,
              !.frustums = [i \in 1..Len(@) |->
                  Frustum_setProjectionMatrix(@[i], angle, aspect, @[i].near, @[i].far)]]

\* the square of Vec3.distance
DistanceSq(a, b) == Vec3_dot(Vec3_sub(a, b), Vec3_sub(a, b))

\* projectedSize() with the distance multiplied instead of divided
Camera_projectedSize_times(v, c, p, r) ==
    AtanDeg(r * r * DistanceSq(c.eye, p) * DistanceSq(c.eye, p), 1) * v.projSizeConst

\* Camera.projectedSize(p, r), for r >= 0
Camera_projectedSize(v, c, p, r) ==
    AtanDeg(r * r, DistanceSq(c.eye, p)) * v.projSizeConst

\* Camera.refresh()
Camera_refresh(v, c) == Camera_update(Camera_setProj(v, v.viewAngle, v.aspect), c)

\* Camera.setAspectRatio(aspect)
Camera_setAspectRatio(v, c, aspect) == Camera_refresh([v EXCEPT !.aspect = aspect], c)

\* Camera.setViewAngle(angle)
Camera_setViewAngle(v, c, angle) == Camera_refresh([v EXCEPT !.viewAngle = angle], c)

\* Camera.setCurrentFrustum(k)
Camera_setCurrentFrustum(v, k) == [v EXCEPT !.currentFrustum = k]

\* get frustum()
Camera_frustum(v) == v.frustums[v.currentFrustum + 1]

\* getProjectionMatrix() that always asks the first frustum
Camera_getProjectionMatrix_first(v) == v.frustums[1].projectionMatrix

\* Camera.getProjectionMatrix()
Camera_getProjectionMatrix(v) == Camera_frustum(v).projectionMatrix

\* Camera.getProjectionViewMatrix()
Camera_getProjectionViewMatrix(v) == Camera_frustum(v).projectionViewMatrix

\* Camera.project(v): the matrix applied and the point it is applied to
Camera_project(v, p) == [matrix |-> v.frustums[1].projectionViewMatrix, arg |-> p]

\* Camera.unproject(x, y): the matrix applied and the screen point
Camera_unproject(v, x, y) ==
    [matrix |-> v.frustums[1].inverseProjectionViewMatrix, arg |-> <<x, y>>]

\* the view part of new Camera(renderer, options) with a renderer: the
\* frustums are built, then _init() sets the projection
View_constructor(viewAngle, aspect, cascades) ==
    LET frustums == IF cascades.given
                    THEN BuildFrustums(<<>>, cascades.frustums, viewAngle, aspect)
                    ELSE <<Renderer_assignPickingColor(
                               Frustum_constructor(viewAngle, aspect, 1, 10000), 1)>>
        \* new Array([near, far]) is an array of one element, the pair
        nearFarArr == IF cascades.given
                      THEN PushNearFar(<<>>, cascades.frustums)
                      ELSE << <<1, 10000>> >>
        v == [ viewAngle |-> viewAngle, aspect |-> aspect, viewMatrix |-> NoMatrix,
               frustums |-> frustums, currentFrustum |-> 0, events |-> <<>>,
               FARTHEST_FRUSTUM_INDEX |-> Len(frustums) - 1,
               projSizeConst |-> 0,
               options |-> cascades,
               normalMatrix |-> NoMatrix,
               eyeHigh |-> <<0, 0, 0>>, eyeLow |-> <<0, 0, 0>>,
               nearFarArr |-> nearFarArr,
               frustumColors |-> PushColors(<<>>, frustums) ]
    IN  Camera_setProj(v, viewAngle, aspect)

ViewIdle == View_constructor(38, 1, [given |-> FALSE, frustums |-> <<>>])
ViewLastInit == [op |-> "constructor", result |-> NoMatrix, afterSet |-> FALSE]

\* the other components do not move
ViewFrame == UNCHANGED <<matVars, camVars, fbVars, trial, geo, loop>>

\* an operation starts with no events and leaves what it returned; the
\* observer notes whether it came right after set()
ViewOp(op, v, result) ==
    /\ view' = v
    /\ viewLast' = [op |-> op, result |-> result, afterSet |-> viewLast.op = "set"]
    /\ ViewFrame

Called == [view EXCEPT !.events = <<>>]

update == ViewOp("update", Camera_update(Called, camera), NoMatrix)

refresh == ViewOp("refresh", Camera_refresh(Called, camera), NoMatrix)

setAspectRatio(aspect) ==
    ViewOp("setAspectRatio", Camera_setAspectRatio(Called, camera, aspect), NoMatrix)

setViewAngle(angle) ==
    ViewOp("setViewAngle", Camera_setViewAngle(Called, camera, angle), NoMatrix)

setCurrentFrustum(k) ==
    ViewOp("setCurrentFrustum", Camera_setCurrentFrustum(Called, k), NoMatrix)

getProjectionMatrix ==
    ViewOp("getProjectionMatrix", Called, Camera_getProjectionMatrix(Called))

getProjectionViewMatrix ==
    ViewOp("getProjectionViewMatrix", Called, Camera_getProjectionViewMatrix(Called))

project(p) == ViewOp("project", Called, Camera_project(Called, p))

unproject(x, y) == ViewOp("unproject", Called, Camera_unproject(Called, x, y))

projectedSize(p, r) ==
    ViewOp("projectedSize", Called,
           [p |-> p, r |-> r, size |-> Camera_projectedSize(Called, camera, p, r)])

\* the eye, look and up vectors set() is called with
SetArgs ==
    { <<<<0, 0, 1>>, <<0, 0, 0>>, <<0, 1, 0>>>>,
      <<<<1, 0, 0>>, <<0, 0, 0>>, <<1, 1, 0>>>>,
      <<<<1, 0, 1>>, <<1, 0, 0>>, <<0, 1, 1>>>> }

\* Camera.set(eye, look, up) between two frames
set(eye, look, up) ==
    /\ camera' = Camera_set(camera, eye, look, up)
    /\ frame' = [frame EXCEPT !.op = "mutate", !.dispatched = 0,
                              !.changed = @ \/ Pose(camera') # Pose(camera)]
    /\ viewLast' = [op |-> "set", result |-> NoMatrix, afterSet |-> FALSE]
    /\ CameraFrame

ViewNext ==
    \/ update
    \/ refresh
    \/ \E aspect \in Aspects : setAspectRatio(aspect)
    \/ \E angle \in ViewAngles : setViewAngle(angle)
    \/ \E k \in 0..(Len(view.frustums) - 1) : setCurrentFrustum(k)
    \/ view.frustums # <<>> /\ getProjectionMatrix
    \/ view.frustums # <<>> /\ getProjectionViewMatrix
    \/ \E p \in ProjectPoints : view.frustums # <<>> /\ project(p)
    \/ \E xy \in ScreenPoints : view.frustums # <<>> /\ unproject(xy[1], xy[2])
    \/ \E p \in ProjectPoints, r \in Radii : projectedSize(p, r)
    \/ \E a \in SetArgs : set(a[1], a[2], a[3])
    \/ \E du \in SlideSteps : slide(du, 0, 0)
    \/ \E angle \in Angles : yaw(angle)

----------------------------------------------------------------------------
(* Camera: rotation about a center, and sequences of pose mutators.          *)

\* new Mat4().setRotation(axis, angle).mulVec3(p), axis of length one:
\* p cos + (axis x p) sin + axis (axis . p)(1 - cos)
Mat4_rotate(axis, angle, p) ==
    Vec3_add(Vec3_add(Vec3_scale(p, Cos(angle)),
                      Vec3_scale(Vec3_cross(axis, p), Sin(angle))),
             Vec3_scale(axis, Vec3_dot(axis, p) * (1 - Cos(angle))))

\* translate(center) . rot . translate(-center), applied to p
Mat4_rotateAbout(axis, angle, center, p) ==
    Vec3_add(center, Mat4_rotate(axis, angle, Vec3_sub(p, center)))

\* an argument that was omitted
Omitted == <<>>

\* rotateAround() that takes the caller's up whatever isArc says
Camera_rotateAround_ignoresArc(c, angle, isArc, center, up) ==
    LET ctr == IF center # Omitted THEN center ELSE Vec3_ZERO
        axis == IF up # Omitted THEN up ELSE Vec3_UP
    IN  [c EXCEPT !.eye = Mat4_rotateAbout(axis, angle, ctr, c.eye),
                  !.v = Vec3_normalize(Mat4_rotate(axis, angle, c.v)),
                  !.u = Vec3_normalize(Mat4_rotate(axis, angle, c.u)),
                  !.n = Vec3_normalize(Mat4_rotate(axis, angle, c.n))]

\* Camera.rotateAround(angle, isArc, center, up)
Camera_rotateAround(c, angle, isArc, center, up) ==
    LET ctr == IF center # Omitted THEN center ELSE Vec3_ZERO
        upv == IF up # Omitted THEN up ELSE Vec3_UP
        axis == IF isArc THEN c.v ELSE upv
    IN  [c EXCEPT !.eye = Mat4_rotateAbout(axis, angle, ctr, c.eye),
                  !.v = Vec3_normalize(Mat4_rotate(axis, angle, c.v)),
                  !.u = Vec3_normalize(Mat4_rotate(axis, angle, c.u)),
                  !.n = Vec3_normalize(Mat4_rotate(axis, angle, c.n))]

\* Camera.rotateHorizontal(angle, isArc, center, up)
Camera_rotateHorizontal(c, angle, isArc, center, up) ==
    Camera_rotateAround(c, angle, isArc, center, up)

\* Camera.rotateVertical(angle, center)
Camera_rotateVertical(c, angle, center) ==
    Camera_rotateAround(c, angle, FALSE, center, c.u)

\* look() that takes v as u x n
Camera_look_leftHanded(c, look, up) ==
    LET n == Vec3_sub(c.eye, look)
        u == Vec3_cross(IF up # Omitted THEN up ELSE c.v, n)
        nn == Vec3_normalize(n)
        un == Vec3_normalize(u)
    IN  [c EXCEPT !.n = nn, !.u = un, !.v = Vec3_cross(un, nn)]

\* Camera.look(look, up)
Camera_look(c, look, up) ==
    LET n == Vec3_sub(c.eye, look)
        u == Vec3_cross(IF up # Omitted THEN up ELSE c.v, n)
        nn == Vec3_normalize(n)
        un == Vec3_normalize(u)
    IN  [c EXCEPT !.n = nn, !.u = un, !.v = Vec3_cross(nn, un)]

\* look differs from the eye, up is not parallel to eye - look, and the two
\* directions have integral unit vectors
NonDegenerate(eye, look, up) ==
    /\ Normalizable(Vec3_sub(eye, look))
    /\ Normalizable(Vec3_cross(up, Vec3_sub(eye, look)))

\* the pose mutator a call names, applied to a pose
Apply(c, call) ==
    CASE call.name = "slide" -> Camera_slide(c, call.args[1], call.args[2], call.args[3])
      [] call.name = "roll" -> Camera_roll(c, call.args[1])
      [] call.name = "pitch" -> Camera_pitch(c, call.args[1])
      [] call.name = "yaw" -> Camera_yaw(c, call.args[1])
      [] call.name = "rotateAround" ->
             Camera_rotateAround(c, call.args[1], call.args[2], call.args[3], call.args[4])
      [] call.name = "rotateHorizontal" ->
             Camera_rotateHorizontal(c, call.args[1], call.args[2], call.args[3],
                                     call.args[4])
      [] call.name = "rotateVertical" -> Camera_rotateVertical(c, call.args[1], call.args[2])
      [] call.name = "set" -> Camera_set(c, call.args[1], call.args[2], call.args[3])
      [] call.name = "look" -> Camera_look(c, call.args[1], call.args[2])

\* the arguments the mutators are called with
SlideVectors == {<<1, 0, 0>>, <<0, 0, 1>>}
TurnAngles == {90, 180}
Centers == {Omitted, <<1, 0, 0>>}
\* center and up given to rotateAround: both omitted, or both given
CenterUps == {<<Omitted, Omitted>>, <<<<1, 0, 0>>, <<1, 0, 0>>>>}

\* eye and basis of a Camera constructed with a renderer and default options
PoseInit ==
    [ eye |-> Camera_constructor(TRUE, 0).eye, u |-> Camera_constructor(TRUE, 0).u,
      v |-> Camera_constructor(TRUE, 0).v, n |-> Camera_constructor(TRUE, 0).n ]

TrialInit == [start |-> PoseInit, prev |-> PoseInit, cam |-> PoseInit, calls |-> <<>>]

\* the other components do not move
PoseFrame == UNCHANGED <<matVars, camVars, fbVars, viewVars, geo, loop>>

\* set() or look() is called on the pose a frame starts from: the basis is
\* built anew, and no further call of the frame is kept after it
Rebase(name, args) ==
    /\ trial.calls = <<>>
    /\ trial' = [start |-> trial.cam, prev |-> trial.cam,
                 cam |-> Apply(trial.cam, [name |-> name, args |-> args]),
                 calls |-> <<[name |-> name, args |-> args]>>]
    /\ PoseFrame

\* one more mutator is called on the pose
Call(name, args) ==
    /\ Len(trial.calls) < MaxOps
    /\ trial.calls # <<>> => trial.calls[Len(trial.calls)].name \notin {"set", "look"}
    /\ trial' = [trial EXCEPT
                    !.prev = trial.cam,
                    !.cam = Apply(trial.cam, [name |-> name, args |-> args]),
                    !.calls = Append(@, [name |-> name, args |-> args])]
    /\ PoseFrame

Pose_slide(du, dv, dn) == Call("slide", <<du, dv, dn>>)

Pose_roll(angle) == Call("roll", <<angle>>)

Pose_pitch(angle) == Call("pitch", <<angle>>)

Pose_yaw(angle) == Call("yaw", <<angle>>)

rotateAround(angle, isArc, center, up) == Call("rotateAround", <<angle, isArc, center, up>>)

rotateHorizontal(angle, isArc, center, up) ==
    Call("rotateHorizontal", <<angle, isArc, center, up>>)

rotateVertical(angle, center) == Call("rotateVertical", <<angle, center>>)

Pose_set(eye, look, up) ==
    /\ NonDegenerate(eye, look, up)
    /\ Rebase("set", <<eye, look, up>>)

Pose_look(look, up) ==
    /\ NonDegenerate(trial.cam.eye, look, IF up # Omitted THEN up ELSE trial.cam.v)
    /\ Rebase("look", <<look, up>>)

\* the look points and up vectors look() is called with
LookPoints == {<<0, 0, 0>>, <<1, 0, 0>>}
LookUps == {Omitted, <<0, 1, 0>>, <<0, 1, 1>>}

\* the next frame starts from the pose reached, while the eye is in range
NextFrame ==
    /\ trial.calls # <<>>
    /\ EyeInRange(trial.cam.eye)
    /\ trial' = [start |-> trial.cam, prev |-> trial.cam, cam |-> trial.cam,
                 calls |-> <<>>]
    /\ PoseFrame

PoseNext ==
    \/ \E d \in SlideVectors : Pose_slide(d[1], d[2], d[3])
    \/ \E angle \in TurnAngles : Pose_roll(angle)
    \/ \E angle \in TurnAngles : Pose_pitch(angle)
    \/ \E angle \in TurnAngles : Pose_yaw(angle)
    \/ \E angle \in TurnAngles, isArc \in BOOLEAN, cu \in CenterUps :
           rotateAround(angle, isArc, cu[1], cu[2])
    \/ rotateHorizontal(90, TRUE, Omitted, Omitted)
    \/ \E center \in Centers : rotateVertical(90, center)
    \/ \E a \in SetArgs : Pose_set(a[1], a[2], a[3])
    \/ \E look \in LookPoints, up \in LookUps : Pose_look(look, up)
    \/ NextFrame

----------------------------------------------------------------------------
(* Camera: a pose mutator between two calls of update().                     *)

\* a pose mutator called on the Camera: it writes the eye and the basis and
\* nothing of the view part, and it calls neither update() nor refresh()
Camera_mutator_updates(v, c, call) ==
    [camera |-> Apply(c, call), view |-> Camera_update(v, Apply(c, call))]

Camera_mutator(v, c, call) == [camera |-> Apply(c, call), view |-> v]

Mutators == {"set", "look", "slide", "roll", "pitch", "yaw", "rotateAround"}

\* the poses set() leaves
SetPoses == {Pose(Camera_set(Camera_constructor(TRUE, 0), a[1], a[2], a[3])) : a \in SetArgs}

\* the other components do not move
MutatorFrame == UNCHANGED <<matVars, fbVars, trial, geo, loop>>

\* the application calls one pose mutator; the observer notes its name
mutator(name, args) ==
    /\ camera' = Camera_mutator(view, camera, [name |-> name, args |-> args]).camera
    /\ view' = Camera_mutator(view, camera, [name |-> name, args |-> args]).view
    /\ viewLast' = [op |-> name, result |-> NoMatrix, afterSet |-> FALSE]
    /\ frame' = [frame EXCEPT !.op = "mutate", !.dispatched = 0,
                              !.changed = @ \/ Pose(camera') # Pose(camera)]
    /\ MutatorFrame

\* a mutator other than set() is called on a pose set() left
OnSetPose(name, args) ==
    /\ Pose(camera) \in SetPoses
    /\ mutator(name, args)

MutatorNext ==
    \/ \E a \in SetArgs : mutator("set", a)
    \/ \E look \in LookPoints, up \in LookUps :
           /\ NonDegenerate(camera.eye, look, IF up # Omitted THEN up ELSE camera.v)
           /\ OnSetPose("look", <<look, up>>)
    \/ \E d \in SlideVectors : OnSetPose("slide", d)
    \/ \E angle \in TurnAngles : OnSetPose("roll", <<angle>>)
    \/ \E angle \in TurnAngles : OnSetPose("pitch", <<angle>>)
    \/ \E angle \in TurnAngles : OnSetPose("yaw", <<angle>>)
    \/ \E angle \in TurnAngles, isArc \in BOOLEAN, cu \in CenterUps :
           OnSetPose("rotateAround", <<angle, isArc, cu[1], cu[2]>>)
    \/ update

----------------------------------------------------------------------------
(* Geodetic coordinates, extents and bounding spheres.                       *)
(* A call either returns a value or throws; its outcome is                   *)
(* [threw, value].  The arguments of a constructor are the sequence of the   *)
(* arguments given, so that an omitted trailing argument is a shorter        *)
(* sequence.                                                                 *)

\* math.MAX and math.MIN: the largest and the smallest number of og/math.js,
\* beyond every coordinate used here
math_MAX == 1000
math_MIN == -math_MAX

\* radius of the sphere that stands for the ellipsoid
EarthRadius == 2

Returned(value) == [value |-> value, threw |-> FALSE]
Thrown(value) == [value |-> value, threw |-> TRUE]

\* args[i] || 0 : an omitted or zero argument gives 0
ArgOr0(args, i) == IF i <= Len(args) /\ args[i] # 0 THEN args[i] ELSE 0

\* new LonLat(lon, lat, height)
LonLat_constructor(args) ==
    [height |-> ArgOr0(args, 3), lon |-> ArgOr0(args, 1), lat |-> ArgOr0(args, 2)]

\* equal() that compares the heights whatever the argument's height is
LonLat_equal_comparesHeight(a, b) ==
    a.lon = b.lon /\ a.lat = b.lat /\ a.height = b.height

\* LonLat.prototype.equal(b), called on a
LonLat_equal(a, b) ==
    IF b.height # 0
    THEN a.lon = b.lon /\ a.lat = b.lat /\ a.height = b.height
    ELSE a.lon = b.lon /\ a.lat = b.lat

\* new Extent(sw, ne)
Extent_constructor(sw, ne) == [southWest |-> sw, northEast |-> ne]

\* the four bindings "const lonmin = math.MAX, lonmax = math.MIN, latmin =
\* math.MAX, latmax = math.MIN" before the loop
LonLatBoundsInit ==
    [threw |-> FALSE, lonmin |-> math_MAX, lonmax |-> math_MIN,
     latmin |-> math_MAX, latmax |-> math_MIN]

\* one pass of the loop body over the pair vi = <<lon, lat>>: a comparison
\* that holds runs an assignment to a binding declared with const, which
\* throws a TypeError and leaves the binding as it was
LonLatBoundsStep(b, vi) ==
    IF b.threw THEN b
    ELSE IF \/ vi[1] < b.lonmin
            \/ vi[1] > b.lonmax
            \/ vi[2] < b.latmin
            \/ vi[2] > b.latmax
         THEN [b EXCEPT !.threw = TRUE]
         ELSE b

\* the loop "for (let i = 0; i < arr.length; i++)" from the i-th pair on
RECURSIVE LonLatBoundsLoop(_, _, _)
LonLatBoundsLoop(b, arr, i) ==
    IF i > Len(arr) THEN b
    ELSE LonLatBoundsLoop(LonLatBoundsStep(b, arr[i]), arr, i + 1)

\* the <<lon, lat>> pairs of an array of LonLat
PairsOf(arr) == [i \in 1..Len(arr) |-> <<arr[i].lon, arr[i].lat>>]

\* the extent built from the bindings after the loop
ExtentOfBounds(b) ==
    Extent_constructor(LonLat_constructor(<<b.lonmin, b.latmin>>),
                       LonLat_constructor(<<b.lonmax, b.latmax>>))

\* Extent.createByCoordinatesArr(arr), arr an array of [lon, lat] pairs
Extent_createByCoordinatesArr(arr) ==
    LET b == LonLatBoundsLoop(LonLatBoundsInit, arr, 1)
    IN  IF b.threw THEN Thrown("TypeError") ELSE Returned(ExtentOfBounds(b))

\* Extent.createByCoordinates(arr), arr an array of LonLat
Extent_createByCoordinates(arr) ==
    LET b == LonLatBoundsLoop(LonLatBoundsInit, PairsOf(arr), 1)
    IN  IF b.threw THEN Thrown("TypeError") ELSE Returned(ExtentOfBounds(b))

\* Extent.prototype.setByCoordinates(arr), called on extent: the value is the
\* extent after the call
Extent_setByCoordinates(extent, arr) ==
    LET b == LonLatBoundsLoop(LonLatBoundsInit, PairsOf(arr), 1)
    IN  IF b.threw THEN Thrown(extent)
        ELSE Returned([extent EXCEPT !.southWest.lon = b.lonmin,
                                     !.southWest.lat = b.latmin,
                                     !.northEast.lon = b.lonmax,
                                     !.northEast.lat = b.latmax])

\* Ellipsoid.prototype.lonLatToCartesian(ll), for a sphere: y points to
\* the north pole, z to lon = 0 on the equator
Ellipsoid_lonLatToCartesian(ll) ==
    LET r == EarthRadius + ll.height
    IN  <<r * Cos(ll.lat) * Sin(ll.lon), r * Sin(ll.lat), r * Cos(ll.lat) * Cos(ll.lon)>>

\* the four corners getCartesianBounds() projects, in its order
Extent_corners(extent) ==
    << LonLat_constructor(<<extent.southWest.lon, extent.southWest.lat>>),
       LonLat_constructor(<<extent.southWest.lon, extent.northEast.lat>>),
       LonLat_constructor(<<extent.northEast.lon, extent.northEast.lat>>),
       LonLat_constructor(<<extent.northEast.lon, extent.southWest.lat>>) >>

\* the six bindings "const xmin = math.MAX, xmax = math.MIN, ..." before the
\* loop of getCartesianBounds()
CartesianBoundsInit ==
    [threw |-> FALSE, xmin |-> math_MAX, xmax |-> math_MIN, ymin |-> math_MAX,
     ymax |-> math_MIN, zmin |-> math_MAX, zmax |-> math_MIN]

\* one pass of the loop body of getCartesianBounds() over the corner v: a
\* comparison that holds runs an assignment to a const binding, which throws
CartesianBoundsStep(b, v) ==
    LET coord == Ellipsoid_lonLatToCartesian(v)
    IN  IF b.threw THEN b
        ELSE IF \/ coord[1] < b.xmin
                \/ coord[1] > b.xmax
                \/ coord[2] < b.ymin
                \/ coord[2] > b.ymax
                \/ coord[3] < b.zmin
                \/ coord[3] > b.zmax
             THEN [b EXCEPT !.threw = TRUE]
             ELSE b

RECURSIVE CartesianBoundsLoop(_, _, _)
CartesianBoundsLoop(b, v, i) ==
    IF i > Len(v) THEN b
    ELSE CartesianBoundsLoop(CartesianBoundsStep(b, v[i]), v, i + 1)

\* Extent.prototype.getCartesianBounds(ellipsoid), called on extent
Extent_getCartesianBounds(extent) ==
    LET b == CartesianBoundsLoop(CartesianBoundsInit, Extent_corners(extent), 1)
    IN  IF b.threw THEN Thrown("TypeError")
        ELSE Returned(<<b.xmin, b.ymin, b.zmin, b.xmax, b.ymax, b.zmax>>)

\* new Sphere(): radius2 is the square of this.radius
Sphere_constructor == [center |-> Vec3_ZERO, radius2 |-> 0]

\* Sphere.prototype.setFromBounds(bounds), bounds = <<minX, minY, minZ, maxX,
\* maxY, maxZ>> with even differences, so that the halves are whole
Sphere_setFromBounds(s, bounds) ==
    LET m == <<bounds[1], bounds[2], bounds[3]>>
        center == << m[1] + (bounds[4] - m[1]) \div 2,
                     m[2] + (bounds[4] - m[2]) \div 2,
                     m[3] + (bounds[6] - m[3]) \div 2 >>
    IN  [s EXCEPT !.center = center, !.radius2 = DistanceSq(center, m)]

\* Sphere.prototype.setFromExtent(ellipsoid, extent): the value is the sphere
\* after the call
Sphere_setFromExtent(s, extent) ==
    LET bounds == Extent_getCartesianBounds(extent)
    IN  IF bounds.threw THEN Thrown(s)
        ELSE Returned(Sphere_setFromBounds(s, bounds.value))

\* argument lists given to new LonLat()
LonLatArgs ==
    { <<>>, <<1, 2>>, <<1, 2, 0>>, <<1, 2, 5>>, <<1, 2, 7>>, <<3, 2, 5>>, <<1, 4>> }

\* [lon, lat] pairs, in degrees
Coordinates == { <<0, 0>>, <<90, 0>>, <<-90, 90>> }

\* arrays of at most MaxCoords coordinates
CoordinateArrays == UNION { [1..n -> Coordinates] : n \in 0..MaxCoords }

\* the LonLat array of an array of pairs
LonLatsOf(arr) == [i \in 1..Len(arr) |-> LonLat_constructor(arr[i])]

\* corners <<west, south, east, north>> on multiples of 90 degrees
ExtentCorners ==
    { <<w, s, e, n>> : w \in {-90, 0}, s \in {-90, 0}, e \in {0, 90}, n \in {0, 90} }

\* new Extent(new LonLat(west, south), new LonLat(east, north))
ExtentOf(c) ==
    Extent_constructor(LonLat_constructor(<<c[1], c[2]>>), LonLat_constructor(<<c[3], c[4]>>))

\* bounds arrays with min <= max on every axis
BoundsArrays ==
    { <<x0, y0, z0, x1, y1, z1>> :
          x0 \in {0, 2}, y0 \in {0, 2}, z0 \in {0}, x1 \in {2, 4}, y1 \in {2, 4}, z1 \in {2, 4} }

GeoInit == [op |-> "constructor", result |-> Returned(Sphere_constructor), args |-> <<>>]

GeoFrame == UNCHANGED <<matVars, camVars, fbVars, viewVars, trial, loop>>

GeoOp(op, args, result) ==
    /\ geo' = [op |-> op, result |-> result, args |-> args]
    /\ GeoFrame

\* a.equal(b) on two LonLat built from the argument lists x and y
equal(x, y) ==
    GeoOp("equal", <<x, y>>,
          Returned(LonLat_equal(LonLat_constructor(x), LonLat_constructor(y))))

createByCoordinates(arr) ==
    GeoOp("createByCoordinates", <<arr>>, Extent_createByCoordinates(LonLatsOf(arr)))

createByCoordinatesArr(arr) ==
    GeoOp("createByCoordinatesArr", <<arr>>, Extent_createByCoordinatesArr(arr))

\* new Extent(): both corners are new LonLat()
Extent_default == Extent_constructor(LonLat_constructor(<<>>), LonLat_constructor(<<>>))

\* the zoom levels of the tiles, and the bits of mantissa of the numbers
\* fromTile() computes with: a double, with MantissaBits in place of 53
MaxZoom == 2
MantissaBits == 4

\* numbers are counted in steps of 2^-(MaxZoom + 1), the finest step a tile
\* edge of the model falls on
Unit == 2 ^ (MaxZoom + 1)

\* the exponent of a number other than zero: 2^e <= |a| < 2^(e + 1)
Exponent(a) == CHOOSE e \in 0..30 : 2 ^ e <= a /\ a < 2 ^ (e + 1)

\* the result of an arithmetic operation, rounded to the nearest number of
\* MantissaBits bits, a tie to the even one
Fround(x) ==
    LET a == IF x < 0 THEN -x ELSE x
        q == IF Exponent(a) >= MantissaBits - 1
             THEN 2 ^ (Exponent(a) - MantissaBits + 1)
             ELSE 1
        fl == a \div q
        r == a % q
        m == IF 2 * r > q \/ (2 * r = q /\ fl % 2 = 1) THEN (fl + 1) * q ELSE fl * q
    IN  IF x = 0 THEN 0 ELSE IF x < 0 THEN -m ELSE m

\* mercator.POLE_DOUBLE: a number that takes the whole mantissa
mercator_POLE_DOUBLE == (2 ^ MantissaBits - 5) * Unit

\* Extent.fromTile(x, y, z, width, height)
Extent_fromTile(x, y, z, width, height) ==
    LET w == IF width # Omitted THEN width ELSE mercator_POLE_DOUBLE
        h == IF height # Omitted THEN height ELSE mercator_POLE_DOUBLE
        lnSize == Fround(w \div (2 ^ z))
        ltSize == Fround(h \div (2 ^ z))
        left == Fround(Fround(-(w \div 2)) + Fround(x * lnSize))
        top == Fround(Fround(h \div 2) - Fround(y * ltSize))
        bottom == Fround(top - ltSize)
        right == Fround(left + lnSize)
    IN  Extent_constructor(LonLat_constructor(<<left, bottom>>),
                           LonLat_constructor(<<right, top>>))

\* the tiles of the grid at the zoom levels up to MaxZoom
Tiles == {t \in (0..(2 ^ MaxZoom - 1)) \X (0..(2 ^ MaxZoom - 1)) \X (0..MaxZoom) :
             t[1] < 2 ^ t[3] /\ t[2] < 2 ^ t[3]}

\* Extent.fromTile(x, y, z) with the default width and height
fromTile(x, y, z) ==
    GeoOp("fromTile", <<x, y, z>>, Returned(Extent_fromTile(x, y, z, Omitted, Omitted)))

\* setByCoordinates() on an extent as new Extent() builds it
setByCoordinates(arr) ==
    GeoOp("setByCoordinates", <<arr>>, Extent_setByCoordinates(Extent_default, LonLatsOf(arr)))

getCartesianBounds(extent) ==
    GeoOp("getCartesianBounds", <<extent>>, Extent_getCartesianBounds(extent))

\* setFromBounds() and setFromExtent() on a sphere as new Sphere() builds it
setFromBounds(bounds) ==
    GeoOp("setFromBounds", <<bounds>>,
          Returned(Sphere_setFromBounds(Sphere_constructor, bounds)))

setFromExtent(extent) ==
    GeoOp("setFromExtent", <<extent>>, Sphere_setFromExtent(Sphere_constructor, extent))

GeoNext ==
    \/ \E x \in LonLatArgs, y \in LonLatArgs : equal(x, y)
    \/ \E arr \in CoordinateArrays : createByCoordinates(arr)
    \/ \E arr \in CoordinateArrays : createByCoordinatesArr(arr)
    \/ \E arr \in CoordinateArrays : setByCoordinates(arr)
    \/ \E c \in ExtentCorners : getCartesianBounds(ExtentOf(c))
    \/ \E bounds \in BoundsArrays : setFromBounds(bounds)
    \/ \E t \in Tiles : fromTile(t[1], t[2], t[3])
    \/ \E c \in ExtentCorners : setFromExtent(ExtentOf(c))

----------------------------------------------------------------------------
(* Handler: the animation loop.                                              *)
(* The handler h is [initialized, requestAnimationFrameId, pending, firing,  *)
(* canvas]: pending is the set of this handler's animation-frame requests    *)
(* the browser holds, firing the request whose callback is running (NoId     *)
(* outside a callback).  The times drawFrame() reads and the clocks it       *)
(* ticks are not kept.                                                       *)

\* null or undefined in _requestAnimationFrameId
NoId == 0

\* this.gl before initialize()
NoGl == <<>>

MAX_SIZE == 4096

\* the ids window.requestAnimationFrame hands out
RequestIds == 1..(MaxRequests + 3)

\* client sizes of the canvas element, as <<clientWidth, clientHeight>>
ClientSizes == { <<256, 256>>, <<1024, 768>>, <<5000, 768>> }

\* sizes the application gives to setSize(), as <<w, h>>
GivenSizes == { <<800, 600>>, <<4096, 4097>>, <<8192, 0>> }

\* what the frame callback set with setFrameCallback() calls on the handler
FrameCalls == { <<>>, <<"stop">>, <<"start">>, <<"stop", "start">> }

\* new Handler(id, params) without params.width and params.height, and the
\* canvas element it will draw on
Handler_constructor(clientSize) ==
    [ gl |-> NoGl,
      initialized |-> FALSE,
      canvas |-> [width |-> 256, height |-> 256,
                  clientWidth |-> clientSize[1], clientHeight |-> clientSize[2]],
      requestAnimationFrameId |-> NoId,
      pending |-> {},
      firing |-> NoId,
      params |-> [width |-> 256, height |-> 256],
      oneByHeight |-> <<1, 256>> ]

\* setSize() that stores the size it is given
Handler_setSize_unclamped(h, w, hh) ==
    [h EXCEPT !.params.width = w,
              !.params.height = hh,
              !.canvas.width = w,
              !.canvas.height = hh,
              !.oneByHeight = <<1, hh>>,
              !.gl = IF @ = NoGl THEN @ ELSE [@ EXCEPT !.viewport = <<0, 0, w, hh>>]]

\* Handler.prototype.setSize(w, h); _oneByHeight = 1 / h is kept as <<1, h>>
Handler_setSize(h, w, hh) ==
    LET cw == IF w > MAX_SIZE THEN MAX_SIZE ELSE w
        ch == IF hh > MAX_SIZE THEN MAX_SIZE ELSE hh
    IN  [h EXCEPT !.params.width = cw,
                  !.params.height = ch,
                  !.canvas.width = cw,
                  !.canvas.height = ch,
                  !.oneByHeight = <<1, ch>>,
                  !.gl = IF @ = NoGl THEN @ ELSE [@ EXCEPT !.viewport = <<0, 0, cw, ch>>]]

\* Handler.prototype.initialize() for a canvas element of the page: the
\* context is created, then _setDefaults() sets the size
Handler_initialize(h) ==
    LET h1 == [h EXCEPT !.gl = [viewport |-> <<0, 0, h.canvas.width, h.canvas.height>>],
                        !.initialized = TRUE]
    IN  Handler_setSize(h1,
            IF h.canvas.clientWidth # 0 THEN h.canvas.clientWidth ELSE h.params.width,
            IF h.canvas.clientHeight # 0 THEN h.canvas.clientHeight ELSE h.params.height)

\* window.requestAnimationFrame(): an id no request known to the handler has
NewRequestId(h) ==
    CHOOSE id \in RequestIds :
        /\ id \notin h.pending \cup {h.firing, h.requestAnimationFrameId}
        /\ \A other \in RequestIds :
               other \notin h.pending \cup {h.firing, h.requestAnimationFrameId}
                   => id <= other

\* Handler.prototype._animationFrameCallback()
Handler_animationFrameCallback(h) ==
    [h EXCEPT !.pending = @ \cup {NewRequestId(h)},
              !.requestAnimationFrameId = NewRequestId(h)]

\* Handler.prototype.start()
Handler_start(h) ==
    IF h.requestAnimationFrameId = NoId /\ h.initialized
    THEN Handler_animationFrameCallback(h)
    ELSE h

\* Handler.prototype.stop(): cancelAnimationFrame() of a request that is
\* not pending does nothing
Handler_stop(h) ==
    IF h.requestAnimationFrameId # NoId
    THEN [h EXCEPT !.pending = @ \ {h.requestAnimationFrameId},
                   !.requestAnimationFrameId = NoId]
    ELSE h

\* the frame callback: it makes its calls on the handler, in order
RECURSIVE Handler_frameCallback(_, _)
Handler_frameCallback(h, calls) ==
    IF calls = <<>> THEN h
    ELSE Handler_frameCallback(
             IF Head(calls) = "stop" THEN Handler_stop(h) ELSE Handler_start(h),
             Tail(calls))

\* whether drawFrame() finds the canvas size differing from its client size
NeedsResize(h) ==
    \/ h.canvas.clientWidth # h.canvas.width
    \/ h.canvas.clientHeight # h.canvas.height

\* Handler.prototype.drawFrame(), with a frame callback that makes calls
Handler_drawFrame(h, calls) ==
    Handler_frameCallback(
        IF NeedsResize(h)
        THEN Handler_setSize(h, h.canvas.clientWidth, h.canvas.clientHeight)
        ELSE h,
        calls)

\* the function given to requestAnimationFrame(), run for the request id
Handler_animationFrame(h, id, calls) ==
    LET fired == [h EXCEPT !.pending = @ \ {id}, !.firing = id]
        drawn == Handler_drawFrame(fired, calls)
    IN  [Handler_animationFrameCallback(drawn) EXCEPT !.firing = NoId]

\* whether the last start() or stop() call of a sequence of calls, or the one
\* before the sequence when it is empty, was stop()
StoppedAfter(calls, before) ==
    IF calls = <<>> THEN before ELSE calls[Len(calls)] = "stop"

LoopFrame == UNCHANGED <<matVars, camVars, fbVars, viewVars, trial, geo>>

\* the handler after an operation, kept when it holds at most MaxRequests
\* requests, with what the operation was; calls is what the frame callback
\* called, or the size given to setSize()
LoopOp(op, h, calls, resized) ==
    /\ Cardinality(h.pending) <= MaxRequests
    /\ loop' = [ op |-> op,
                 calls |-> calls,
                 before |-> loop.handler.pending,
                 resized |-> resized,
                 handler |-> h,
                 wasStopped |-> loop.stopped,
                 stopped |-> IF op \in {"initialize", "setSize", "layout"} THEN loop.stopped
                             ELSE StoppedAfter(calls, loop.stopped) ]
    /\ LoopFrame

LoopInit(clientSize) ==
    [ op |-> "constructor",
      calls |-> <<>>,
      before |-> {},
      resized |-> FALSE,
      handler |-> Handler_constructor(clientSize),
      wasStopped |-> FALSE,
      stopped |-> FALSE ]

LoopIdle == LoopInit(<<256, 256>>)

initialize ==
    /\ ~loop.handler.initialized
    /\ LoopOp("initialize", Handler_initialize(loop.handler), <<>>, TRUE)

\* setSize(w, h) called by the application
Handler_resize(w, h) ==
    LoopOp("setSize", Handler_setSize(loop.handler, w, h), <<w, h>>, TRUE)

\* the page lays the canvas element out at another client size
layout(clientSize) ==
    /\ clientSize # <<loop.handler.canvas.clientWidth, loop.handler.canvas.clientHeight>>
    /\ LoopOp("layout",
              [loop.handler EXCEPT !.canvas.clientWidth = clientSize[1],
                                   !.canvas.clientHeight = clientSize[2]],
              <<>>, FALSE)

\* start() called outside a frame
start == LoopOp("start", Handler_start(loop.handler), <<"start">>, FALSE)

\* stop() called outside a frame
stop == LoopOp("stop", Handler_stop(loop.handler), <<"stop">>, FALSE)

\* the browser runs the callback of a pending request
animationFrame(id, calls) ==
    /\ id \in loop.handler.pending
    /\ LoopOp("frame", Handler_animationFrame(loop.handler, id, calls), calls,
              NeedsResize(loop.handler))

LoopNext ==
    \/ initialize
    \/ start
    \/ stop
    \/ \E id \in RequestIds, calls \in FrameCalls : animationFrame(id, calls)
    \/ \E size \in GivenSizes : Handler_resize(size[1], size[2])
    \/ \E clientSize \in ClientSizes : layout(clientSize)

----------------------------------------------------------------------------
(* Specifications *)

\* the observer before the first frame: frame.pose is the pose the camera
\* fields were created with, which stands for the frame before the first one
FrameInit ==
    [ op |-> "constructor",
      dispatched |-> 0,
      pose |-> Pose(Camera_constructor(FALSE, 0)),
      differed |-> FALSE,
      differedBefore |-> FALSE,
      changed |-> FALSE ]

\* a Material as constructed for the segment of a visible tile; the Camera at
\* rest
MaterialInit ==
    /\ material = Material_constructor("layerA")
    /\ \E id \in NodeIds : segment = [initialized |-> TRUE, nodeId |-> id]
    /\ gl = [created |-> 0, deleted |-> {}]
    /\ layerCalls = <<>>
    /\ lastOp = "constructor"
    /\ pre = [material |-> material, gl |-> gl, afterClear |-> FALSE]
    /\ camera = Camera_constructor(FALSE, 0)
    /\ frame = FrameInit
    /\ fbs = FbsIdle
    /\ fbLast = FbLastInit
    /\ view = ViewIdle
    /\ viewLast = ViewLastInit
    /\ trial = TrialInit
    /\ geo = GeoInit
    /\ loop = LoopIdle

\* a Camera as constructed, with or without a renderer and with or without a
\* moveend handler; the Material at rest
CameraInit ==
    /\ \E renderer \in BOOLEAN, handlers \in 0..1 :
           camera = Camera_constructor(renderer, handlers)
    /\ frame = FrameInit
    /\ material = Material_constructor("layerA")
    /\ segment = [initialized |-> TRUE, nodeId |-> 1]
    /\ gl = [created |-> 0, deleted |-> {}]
    /\ layerCalls = <<>>
    /\ lastOp = "constructor"
    /\ pre = [material |-> material, gl |-> gl, afterClear |-> FALSE]
    /\ fbs = FbsIdle
    /\ fbLast = FbLastInit
    /\ view = ViewIdle
    /\ viewLast = ViewLastInit
    /\ trial = TrialInit
    /\ geo = GeoInit
    /\ loop = LoopIdle

\* two targets as constructed: A is 256x256 with one to MaxColors color
\* attachments, with or without depth, bare or not; B is 512x512 with one
\* color attachment and no depth
FramebufferInit ==
    /\ \E useDepth \in BOOLEAN, isBare \in BOOLEAN, size \in 1..MaxColors :
           fbs = FbsInit(Framebuffer_constructor(256, 256, useDepth, isBare, size),
                         Framebuffer_constructor(512, 512, FALSE, FALSE, 1))
    /\ fbLast = FbLastInit
    /\ camera = Camera_constructor(FALSE, 0)
    /\ frame = FrameInit
    /\ material = Material_constructor("layerA")
    /\ segment = [initialized |-> TRUE, nodeId |-> 1]
    /\ gl = [created |-> 0, deleted |-> {}]
    /\ layerCalls = <<>>
    /\ lastOp = "constructor"
    /\ pre = [material |-> material, gl |-> gl, afterClear |-> FALSE]
    /\ view = ViewIdle
    /\ viewLast = ViewLastInit
    /\ trial = TrialInit
    /\ geo = GeoInit
    /\ loop = LoopIdle

\* a Camera constructed with a renderer, with its aspect and its cascades
ViewInit ==
    /\ \E aspect \in Aspects, cascades \in CascadeOptions :
           view = View_constructor(38, aspect, cascades)
    /\ viewLast = ViewLastInit
    /\ camera = Camera_constructor(TRUE, 0)
    /\ frame = FrameInit
    /\ fbs = FbsIdle
    /\ fbLast = FbLastInit
    /\ material = Material_constructor("layerA")
    /\ segment = [initialized |-> TRUE, nodeId |-> 1]
    /\ gl = [created |-> 0, deleted |-> {}]
    /\ layerCalls = <<>>
    /\ lastOp = "constructor"
    /\ pre = [material |-> material, gl |-> gl, afterClear |-> FALSE]
    /\ trial = TrialInit
    /\ geo = GeoInit
    /\ loop = LoopIdle

\* a Camera constructed with a renderer, before any pose mutator is called
PoseSpecInit ==
    /\ trial = TrialInit
    /\ view = ViewIdle
    /\ viewLast = ViewLastInit
    /\ camera = Camera_constructor(TRUE, 0)
    /\ frame = FrameInit
    /\ fbs = FbsIdle
    /\ fbLast = FbLastInit
    /\ material = Material_constructor("layerA")
    /\ segment = [initialized |-> TRUE, nodeId |-> 1]
    /\ gl = [created |-> 0, deleted |-> {}]
    /\ layerCalls = <<>>
    /\ lastOp = "constructor"
    /\ pre = [material |-> material, gl |-> gl, afterClear |-> FALSE]
    /\ geo = GeoInit
    /\ loop = LoopIdle

\* before any call on a LonLat, an Extent or a Sphere
GeoSpecInit ==
    /\ geo = GeoInit
    /\ loop = LoopIdle
    /\ trial = TrialInit
    /\ view = ViewIdle
    /\ viewLast = ViewLastInit
    /\ camera = Camera_constructor(TRUE, 0)
    /\ frame = FrameInit
    /\ fbs = FbsIdle
    /\ fbLast = FbLastInit
    /\ material = Material_constructor("layerA")
    /\ segment = [initialized |-> TRUE, nodeId |-> 1]
    /\ gl = [created |-> 0, deleted |-> {}]
    /\ layerCalls = <<>>
    /\ lastOp = "constructor"
    /\ pre = [material |-> material, gl |-> gl, afterClear |-> FALSE]

\* a Handler as constructed, not yet initialized, for a canvas element of one
\* of the client sizes
LoopSpecInit ==
    /\ \E clientSize \in ClientSizes : loop = LoopInit(clientSize)
    /\ geo = GeoInit
    /\ trial = TrialInit
    /\ view = ViewIdle
    /\ viewLast = ViewLastInit
    /\ camera = Camera_constructor(TRUE, 0)
    /\ frame = FrameInit
    /\ fbs = FbsIdle
    /\ fbLast = FbLastInit
    /\ material = Material_constructor("layerA")
    /\ segment = [initialized |-> TRUE, nodeId |-> 1]
    /\ gl = [created |-> 0, deleted |-> {}]
    /\ layerCalls = <<>>
    /\ lastOp = "constructor"
    /\ pre = [material |-> material, gl |-> gl, afterClear |-> FALSE]

MaterialSpec == MaterialInit /\ [][MaterialNext]_vars

CameraSpec == CameraInit /\ [][CameraNext]_vars

FramebufferSpec == FramebufferInit /\ [][FramebufferNext]_vars

ViewSpec == ViewInit /\ [][ViewNext]_vars

PoseSpec == PoseSpecInit /\ [][PoseNext]_vars

MutatorSpec == ViewInit /\ [][MutatorNext]_vars

GeoSpec == GeoSpecInit /\ [][GeoNext]_vars

LoopSpec == LoopSpecInit /\ [][LoopNext]_vars

----------------------------------------------------------------------------
(* Properties of the Material *)

ResponseOps == {"applyImage", "applyTexture", "textureNotExists"}
MaterialOps == ResponseOps \cup {"abortLoading", "clear"}

ReadyWithoutTexture(m) == m.isReady /\ ~m.textureExists /\ ~m.isLoading

\* C1: when the owning segment is not initialized, applyImage, applyTexture and
\* textureNotExists complete, leave every field of the Material as it was and
\* create (or delete) no GPU texture.
C1_StaleResponseDropped ==
    (lastOp \in ResponseOps /\ ~segment.initialized)
        => (material = pre.material /\ gl = pre.gl)

\* a response arrived for a Material that was still loading when its tile went
C1_Witness ==
    /\ lastOp = "applyImage"
    /\ ~segment.initialized
    /\ pre.material.isLoading
    /\ ~pre.material.isReady

\* C2: in every reachable state, isReady = true implies isLoading = false.
C2_ReadyNotLoading == material.isReady => ~material.isLoading

\* a response turned a loading Material into a ready one
C2_Witness ==
    /\ lastOp = "applyTexture"
    /\ pre.material.isLoading
    /\ material.isReady

C4_ApplyMakesReady ==
    (lastOp \in {"applyImage", "applyTexture"} /\ segment.initialized)
        => /\ material.isReady
           /\ material.textureExists
           /\ ~material.isLoading
           /\ material.pickingReady
           /\ material.texOffset = IdentityTexOffset
           /\ material.appliedNodeId = segment.nodeId

\* applyTexture on a loading Material that showed a part of an ancestor's texture
C4_Witness ==
    /\ lastOp = "applyTexture"
    /\ segment.initialized
    /\ pre.material.isLoading
    /\ pre.material.texOffset # IdentityTexOffset
    /\ pre.material.appliedNodeId # segment.nodeId

\* C5: with the segment initialized, textureNotExists leaves the Material ready
\* without texture: isReady and pickingReady set, textureExists and isLoading
\* cleared, whatever the state before.
C5_NotExistsMakesReadyWithout ==
    (lastOp = "textureNotExists" /\ segment.initialized)
        => /\ material.isReady
           /\ ~material.textureExists
           /\ ~material.isLoading
           /\ material.pickingReady

\* textureNotExists on a Material that was ready with a texture
C5_Witness ==
    /\ lastOp = "textureNotExists"
    /\ segment.initialized
    /\ pre.material.isReady
    /\ pre.material.textureExists

C8_NoOperationStartsLoad ==
    /\ lastOp \in MaterialOps
        => /\ material.isLoading => pre.material.isLoading
           /\ material.loadingAttempts <= pre.material.loadingAttempts
           /\ lastOp # "clear"
                  => material.loadingAttempts = pre.material.loadingAttempts
           /\ lastOp = "clear" => material.loadingAttempts = 0
    /\ (ReadyWithoutTexture(pre.material)
            /\ lastOp \notin {"clear", "applyImage", "applyTexture", "constructor"})
        => ReadyWithoutTexture(material)

\* textureNotExists answered a load that had been attempted, and the Material
\* was then asked to abort
C8_Witness ==
    /\ lastOp = "abortLoading"
    /\ ReadyWithoutTexture(pre.material)
    /\ material.loadingAttempts > 0

\* C9: abortLoading() calls abortMaterialLoading(this) exactly once, on the
\* layer assigned to the Material at the time of the call, and leaves every
\* field of the Material unchanged.
C9_AbortOnlyDelegates ==
    lastOp = "abortLoading"
        => /\ layerCalls = <<[fn |-> "abortMaterialLoading", layer |-> pre.material.layer]>>
           /\ material = pre.material
           /\ gl = pre.gl

\* abortLoading() of a loading Material after assignLayer replaced the layer
\* the Material was constructed with
C9_Witness ==
    /\ lastOp = "abortLoading"
    /\ pre.material.isLoading
    /\ pre.material.layer = "layerB"

----------------------------------------------------------------------------
(* Properties of the Camera *)

\* C10: with a moveend handler registered, a checkMoveEnd call dispatches
\* moveend once exactly when the pose (eye, u, v, n) equals the pose of the
\* frame before while that frame's pose differed from its own predecessor's,
\* and dispatches nothing on every other frame (a frame whose pose differs, or a
\* further stationary frame).  The frame before the first one is the pose the
\* camera fields were created with.
C10_MoveEndOncePerRun ==
    (frame.op = "checkMoveEnd" /\ camera.moveendHandlers > 0)
        => frame.dispatched =
               (IF ~frame.differed /\ frame.differedBefore THEN 1 ELSE 0)

\* the first stationary frame after a run of moving frames
C10_Witness ==
    /\ frame.op = "checkMoveEnd"
    /\ camera.moveendHandlers > 0
    /\ frame.differedBefore
    /\ ~frame.differed
    /\ frame.dispatched = 1

\* C11: if the pose is never changed after the Camera has been constructed,
\* checkMoveEnd dispatches moveend on no frame.
C11_NoChangeNoMoveEnd ==
    (frame.op = "checkMoveEnd" /\ ~frame.changed) => frame.dispatched = 0

----------------------------------------------------------------------------
(* Render targets *)

\* the viewport covering a target
TargetViewport(st, t) == <<0, 0, st.targets[t].width, st.targets[t].height>>
\* the viewport covering the canvas
CanvasViewport(st) == <<0, 0, st.canvas[1], st.canvas[2]>>
\* the target under the top of the stack: the one that was on top before the
\* activate() that pushed the top
Below(stack) == IF Len(stack) >= 2 THEN stack[Len(stack) - 1] ELSE NoTarget
\* the targets marked active
ActiveTargets(st) == {t \in Targets : st.targets[t].active}
\* the live GPU objects a target holds a handle to
Attached(st, t) ==
    {o \in st.gl.objs :
        \/ o.kind = "fbo" /\ o.id = st.targets[t].fbo
        \/ o.kind = "rb" /\ o.id = st.targets[t].depthRenderbuffer
        \/ o.kind = "tex" /\ \E i \in 1..Len(st.targets[t].textures) :
                                 o.id = st.targets[t].textures[i]}

\* C12: with properly nested calls, deactivate() pops the stack and restores
\* the viewport of the target that was on top before the matching activate(),
\* or the canvas viewport when there was none.
C12_DeactivateRestoresViewport ==
    [][fbLast'.op = "deactivate" =>
          LET outer == Below(fbs.stack)
          IN  /\ fbs'.stack = SubSeq(fbs.stack, 1, Len(fbs.stack) - 1)
              /\ fbs'.gl.viewport = IF outer # NoTarget
                                    THEN TargetViewport(fbs, outer)
                                    ELSE CanvasViewport(fbs)]_vars

\* with A (256x256) active, B (512x512) was activated and deactivated, and
\* the viewport is A's again
C12_Witness ==
    /\ fbLast.op = "deactivate"
    /\ fbLast.target = "B"
    /\ fbs.stack = <<"A">>
    /\ fbs.gl.viewport = <<0, 0, 256, 256>>

\* C13: after activate(), whatever the stack held, the target is bound, the
\* viewport covers it, it is on top of the stack and marked active, and the
\* target that was on top before is marked inactive.
C13_ActivatePostcondition ==
    [][fbLast'.op = "activate" =>
          LET t == fbLast'.target
              c == Stack_current(fbs.stack)
          IN  /\ fbs'.gl.bound = fbs'.targets[t].fbo
              /\ fbs'.gl.viewport = TargetViewport(fbs', t)
              /\ Stack_current(fbs'.stack) = t
              /\ fbs'.targets[t].active
              /\ c # NoTarget => ~fbs'.targets[c].active]_vars

\* C14: at most one target is marked active.
C14_AtMostOneActive == Cardinality(ActiveTargets(fbs)) <= 1

\* a second target was activated over an active one, and only it is active
C14_Witness ==
    /\ fbLast.op = "activate"
    /\ Len(fbs.stack) >= 2
    /\ Below(fbs.stack) # fbLast.target
    /\ ActiveTargets(fbs) = {fbLast.target}

\* what setSize(w, h, forceDestroy) does in both branches, the viewport aside
SetSizeEffect(t, w, h, forceDestroy) ==
    /\ fbs'.targets[t].width = w
    /\ fbs'.targets[t].height = h
    /\ IF fbs.targets[t].useDepth \/ forceDestroy
       THEN /\ fbs'.gl.objs \ Attached(fbs', t) = fbs.gl.objs \ Attached(fbs, t)
            /\ \E o \in Attached(fbs', t) : o.kind = "fbo"
            /\ \A o \in Attached(fbs', t) : o.kind # "fbo" => o.w = w /\ o.h = h
            /\ fbs.targets[t].useDepth <=> \E o \in Attached(fbs', t) : o.kind = "rb"
            /\ ~fbs.targets[t].isBare =>
                   \A i \in 1..fbs.targets[t].size :
                       \E o \in Attached(fbs', t) :
                           o.kind = "tex" /\ o.id = fbs'.targets[t].textures[i]
       ELSE /\ fbs'.gl.objs = fbs.gl.objs
            /\ fbs'.gl.bound = fbs.gl.bound
            /\ fbs'.stack = fbs.stack
            /\ fbs'.targets = [fbs.targets EXCEPT ![t].width = w, ![t].height = h]

\* the statement as written: in the non-destructive branch the viewport does
\* not change either
C15_SetSizeLeavesViewport ==
    [][fbLast'.op = "setSize" =>
          LET t == fbLast'.target
              a == fbLast'.args
          IN  /\ SetSizeEffect(t, a[1], a[2], a[3])
              /\ ~(fbs.targets[t].useDepth \/ a[3]) =>
                     fbs'.gl.viewport = fbs.gl.viewport]_vars

\* C15: setSize(w, h, forceDestroy) stores the size; with depth or forceDestroy
\* it replaces the target's attachments by new ones of the new size; otherwise
\* no GPU object is created or deleted and binding, stack and flags are kept,
\* and the viewport becomes (0,0,w,h) exactly when the target is marked active.
C15_SetSizeEffect ==
    [][fbLast'.op = "setSize" =>
          LET t == fbLast'.target
              a == fbLast'.args
          IN  /\ SetSizeEffect(t, a[1], a[2], a[3])
              /\ ~(fbs.targets[t].useDepth \/ a[3]) =>
                     fbs'.gl.viewport = IF fbs.targets[t].active
                                        THEN <<0, 0, a[1], a[2]>>
                                        ELSE fbs.gl.viewport]_vars

\* a depthless target marked active was resized without forceDestroy, and the
\* viewport follows its new size
C15_Witness ==
    /\ fbLast.op = "setSize"
    /\ ~fbLast.args[3]
    /\ ~fbs.targets[fbLast.target].useDepth
    /\ fbs.targets[fbLast.target].active
    /\ fbs.targets[fbLast.target].fbo # NULL
    /\ fbs.gl.viewport = <<0, 0, 512, 256>>

\* C16: after destroy() no GPU object allocated by an init() of the target is
\* still alive.
C16_DestroyReleasesAll ==
    fbLast.op = "destroy" => \A o \in fbs.gl.objs : o.by # fbLast.target

----------------------------------------------------------------------------
(* Camera view and frustums *)

\* the operations that run update()
UpdatingOps == {"update", "refresh", "setAspectRatio", "setViewAngle"}
\* the positions of an event kind among the events of the last operation
EventsOf(kind) == {j \in 1..Len(view.events) : view.events[j].ev = kind}

\* C17: update(), refresh(), setAspectRatio() and setViewAngle() each run one
\* update, which gives the new view matrix to every frustum and then
\* dispatches viewchange once, after the last frustum has it.
C17_UpdateThenViewChangeOnce ==
    viewLast.op \in UpdatingOps =>
        /\ Cardinality(EventsOf("update")) = 1
        /\ EventsOf("viewchange") = {Len(view.events)}
        /\ view.viewMatrix = ViewMatrix(camera)
        /\ \A i \in 1..Len(view.frustums) :
               /\ \E j \in 1..(Len(view.events) - 1) :
                      view.events[j] = SetViewMatrixEvent(i - 1, ViewMatrix(camera))
               /\ view.frustums[i].projectionViewMatrix.view = ViewMatrix(camera)

\* the aspect ratio of a two-cascade camera was set after the pose had moved
C17_Witness ==
    /\ viewLast.op = "setAspectRatio"
    /\ Len(view.frustums) = 2
    /\ Len(view.events) = 4
    /\ camera.eye # <<0, 0, 1>>
    /\ view.frustums[2].projectionViewMatrix.view = ViewMatrix(camera)

\* the statement as written: the current frustum answers project, unproject
\* and getProjectionMatrix
C18_CurrentFrustumAnswersAll ==
    LET current == view.frustums[view.currentFrustum + 1]
    IN  /\ viewLast.op = "getProjectionMatrix" =>
               viewLast.result = current.projectionMatrix
        /\ viewLast.op = "project" =>
               viewLast.result.matrix = current.projectionViewMatrix
        /\ viewLast.op = "unproject" =>
               viewLast.result.matrix = current.inverseProjectionViewMatrix

\* C18: setCurrentFrustum(k) selects the frustum whose matrices
\* getProjectionMatrix and getProjectionViewMatrix return; project and
\* unproject use the matrices of the first frustum whatever the current one.
C18_CurrentFrustumAnswersGetters ==
    LET current == view.frustums[view.currentFrustum + 1]
        first == view.frustums[1]
    IN  /\ viewLast.op = "getProjectionMatrix" =>
               viewLast.result = current.projectionMatrix
        /\ viewLast.op = "getProjectionViewMatrix" =>
               viewLast.result = current.projectionViewMatrix
        /\ viewLast.op = "project" =>
               viewLast.result.matrix = first.projectionViewMatrix
        /\ viewLast.op = "unproject" =>
               viewLast.result.matrix = first.inverseProjectionViewMatrix

\* with the second cascade current and the view matrix given to both,
\* getProjectionMatrix answered with the second cascade's matrix
C18_Witness ==
    /\ viewLast.op = "getProjectionMatrix"
    /\ view.currentFrustum = 1
    /\ view.viewMatrix # NoMatrix
    /\ viewLast.result = view.frustums[2].projectionMatrix
    /\ viewLast.result # view.frustums[1].projectionMatrix

----------------------------------------------------------------------------
(* Camera pose mutators *)

\* the part of x at right angles to the unit vector k
Perp(k, x) == Vec3_sub(x, Vec3_scale(k, Vec3_dot(x, k)))

\* y is x turned by angle about the unit vector k: the part along k is kept,
\* and the part at right angles keeps its length and turns by angle about k
RotatedAbout(k, angle, x, y) ==
    LET px == Perp(k, x)
        py == Perp(k, y)
    IN  /\ Vec3_dot(y, k) = Vec3_dot(x, k)
        /\ Vec3_dot(py, py) = Vec3_dot(px, px)
        /\ Vec3_dot(px, py) = Cos(angle) * Vec3_dot(px, px)
        /\ Vec3_cross(px, py) = Vec3_scale(k, Sin(angle) * Vec3_dot(px, px))

\* the eye turned about the axis through center, the basis about the axis
PoseRotatedAbout(axis, angle, center, before, after) ==
    /\ RotatedAbout(axis, angle, Vec3_sub(before.eye, center), Vec3_sub(after.eye, center))
    /\ RotatedAbout(axis, angle, before.u, after.u)
    /\ RotatedAbout(axis, angle, before.v, after.v)
    /\ RotatedAbout(axis, angle, before.n, after.n)

LastCall == trial.calls[Len(trial.calls)]

\* C19: rotateAround(angle, isArc, center, up) turns the eye about center and
\* u, v, n about one axis: the camera's up vector _v when isArc, else the
\* caller's up (Vec3.UP when omitted); rotateVertical(angle, center) turns
\* about the camera's right vector _u.
C19_RotateAroundAxis ==
    trial.calls # <<>> =>
        LET a == LastCall.args
        IN  /\ LastCall.name = "rotateAround" =>
                   PoseRotatedAbout(
                       IF a[2] THEN trial.prev.v
                       ELSE IF a[4] = Omitted THEN <<0, 1, 0>> ELSE a[4],
                       a[1],
                       IF a[3] = Omitted THEN <<0, 0, 0>> ELSE a[3],
                       trial.prev, trial.cam)
            /\ LastCall.name = "rotateVertical" =>
                   PoseRotatedAbout(
                       trial.prev.u, a[1],
                       IF a[2] = Omitted THEN <<0, 0, 0>> ELSE a[2],
                       trial.prev, trial.cam)

\* an arc rotation about a given center was called with an up vector that is
\* not along the camera's own, and the eye moved
C19_Witness ==
    /\ trial.calls # <<>>
    /\ LastCall.name = "rotateAround"
    /\ LastCall.args[2]
    /\ LastCall.args[3] # Omitted
    /\ LastCall.args[4] # Omitted
    /\ Vec3_cross(LastCall.args[4], trial.prev.v) # <<0, 0, 0>>
    /\ trial.cam.eye # trial.prev.eye

\* the two calls of a trial, applied to its starting pose in the other order
Swapped == Apply(Apply(trial.start, trial.calls[2]), trial.calls[1])

\* the statement as written: any two of slide, rotateAround, pitch, yaw and
\* roll give the same eye and basis in either order
C20_MutatorsCommute ==
    (/\ Len(trial.calls) = 2
     /\ \A i \in 1..2 :
            trial.calls[i].name \in {"slide", "rotateAround", "pitch", "yaw", "roll"})
        => Pose(trial.cam) = Pose(Swapped)

\* C20: two slides give the same eye and basis in either order, and so do two
\* rolls, two pitches and two yaws.
C20_SameKindCommutes ==
    (/\ Len(trial.calls) = 2
     /\ trial.calls[1].name = trial.calls[2].name
     /\ trial.calls[1].name \in {"slide", "roll", "pitch", "yaw"})
        => Pose(trial.cam) = Pose(Swapped)

\* two yaws by different angles were applied, and the pose has changed
C20_Witness ==
    /\ Len(trial.calls) = 2
    /\ trial.calls[1].name = "yaw"
    /\ trial.calls[2].name = "yaw"
    /\ trial.calls[1].args # trial.calls[2].args
    /\ Pose(trial.cam) # Pose(trial.start)

\* C21: projectedSize(p, r) is atan(r / distance(eye, p)) times
\* min(clientWidth, clientHeight) / fov; for the same camera a point that is
\* not nearer gives a size that is not larger, and a radius that is not
\* smaller gives a size that is not smaller.
C21_ProjectedSizeMonotone ==
    viewLast.op = "projectedSize" =>
        LET p == viewLast.result.p
            r == viewLast.result.r
            size == viewLast.result.size
            sizeOf(q, t) == AtanDeg(t * t, DistanceSq(camera.eye, q))
                                * (Min2(ClientSize[1], ClientSize[2]) \div view.viewAngle)
        IN  /\ size = sizeOf(p, r)
            /\ \A q \in ProjectPoints :
                   DistanceSq(camera.eye, q) >= DistanceSq(camera.eye, p) =>
                       sizeOf(q, r) <= size
            /\ \A t \in Radii : t >= r => sizeOf(p, t) >= size

\* a size was computed, and a farther point of the same radius is smaller and
\* a larger radius at the same point is larger
C21_Witness ==
    /\ viewLast.op = "projectedSize"
    /\ \E q \in ProjectPoints :
           /\ DistanceSq(camera.eye, q) > DistanceSq(camera.eye, viewLast.result.p)
           /\ Camera_projectedSize(view, camera, q, viewLast.result.r)
                  < viewLast.result.size
    /\ \E t \in Radii :
           /\ t > viewLast.result.r
           /\ Camera_projectedSize(view, camera, viewLast.result.p, t)
                  > viewLast.result.size

\* the matrix m applied to the point p, and its inverse for an orthonormal
\* rotation part: the transposed rotation applied to p minus the translation
MulVec3(m, p) ==
    << m[1] * p[1] + m[5] * p[2] + m[9] * p[3] + m[13],
       m[2] * p[1] + m[6] * p[2] + m[10] * p[3] + m[14],
       m[3] * p[1] + m[7] * p[2] + m[11] * p[3] + m[15] >>
InverseMulVec3(m, p) ==
    LET d == <<p[1] - m[13], p[2] - m[14], p[3] - m[15]>>
    IN  << m[1] * d[1] + m[2] * d[2] + m[3] * d[3],
           m[5] * d[1] + m[6] * d[2] + m[7] * d[3],
           m[9] * d[1] + m[10] * d[2] + m[11] * d[3] >>

\* C23: after set() followed by update() the view matrix has u, v, n as its
\* rotation part and (-eye.u, -eye.v, -eye.n) as its translation; it takes the
\* eye to the origin of view space and its inverse takes the origin to the eye.
C23_ViewMatrixEyeRoundTrip ==
    (viewLast.op = "update" /\ viewLast.afterSet) =>
        LET m == view.viewMatrix
        IN  /\ <<m[1], m[5], m[9]>> = camera.u
            /\ <<m[2], m[6], m[10]>> = camera.v
            /\ <<m[3], m[7], m[11]>> = camera.n
            /\ <<m[13], m[14], m[15]>> = << -Vec3_dot(camera.eye, camera.u),
                                            -Vec3_dot(camera.eye, camera.v),
                                            -Vec3_dot(camera.eye, camera.n) >>
            /\ <<m[4], m[8], m[12], m[16]>> = <<0, 0, 0, 1>>
            /\ MulVec3(m, camera.eye) = <<0, 0, 0>>
            /\ InverseMulVec3(m, <<0, 0, 0>>) = camera.eye

\* update() ran right after set() had put the eye off the z axis
C23_Witness ==
    /\ viewLast.op = "update"
    /\ viewLast.afterSet
    /\ camera.eye = <<1, 0, 1>>
    /\ view.viewMatrix[13] # 0

\* the tags, the order and the indices the constructor leaves
FrustumsAsBuilt ==
    /\ \A i \in 1..Len(view.frustums) : view.frustums[i].cameraFrustumIndex = i - 1
    /\ view.options.given =>
           /\ Len(view.frustums) = Len(view.options.frustums)
           /\ \A i \in 1..Len(view.frustums) :
                  /\ view.frustums[i].near = view.options.frustums[i][1]
                  /\ view.frustums[i].far = view.options.frustums[i][2]
    /\ ~view.options.given => Len(view.frustums) = 1
    /\ view.FARTHEST_FRUSTUM_INDEX = Len(view.frustums) - 1
    /\ viewLast.op = "constructor" => view.currentFrustum = 0

Orthonormal(c) ==
    /\ Vec3_dot(c.u, c.u) = 1 /\ Vec3_dot(c.v, c.v) = 1 /\ Vec3_dot(c.n, c.n) = 1
    /\ Vec3_dot(c.u, c.v) = 0 /\ Vec3_dot(c.v, c.n) = 0 /\ Vec3_dot(c.n, c.u) = 0

\* a is a unit vector in the direction of b
DirectionOf(a, b) ==
    /\ Vec3_dot(a, a) = 1
    /\ Vec3_cross(a, b) = <<0, 0, 0>>
    /\ Vec3_dot(a, b) > 0

\* C22: for non-degenerate input, set(eye, look, up) and look(look, up) leave
\* n in the direction of eye - look, u in the direction of up x n, v = n x u
\* and the basis orthonormal; set makes the eye the given eye, look keeps it.
C22_SetLookOrthonormal ==
    (trial.calls # <<>> /\ LastCall.name \in {"set", "look"}) =>
        LET a == LastCall.args
            isSet == LastCall.name = "set"
            eye == IF isSet THEN a[1] ELSE trial.prev.eye
            look == IF isSet THEN a[2] ELSE a[1]
            upArg == IF isSet THEN a[3] ELSE a[2]
            up == IF upArg # Omitted THEN upArg ELSE trial.prev.v
        IN  /\ trial.cam.eye = eye
            /\ DirectionOf(trial.cam.n, Vec3_sub(eye, look))
            /\ DirectionOf(trial.cam.u, Vec3_cross(up, trial.cam.n))
            /\ trial.cam.v = Vec3_cross(trial.cam.n, trial.cam.u)
            /\ Orthonormal(trial.cam)

\* look() was called with an up vector that is not at right angles to
\* eye - look, and the basis changed
C22_Witness ==
    /\ trial.calls # <<>>
    /\ LastCall.name = "look"
    /\ LastCall.args[2] # Omitted
    /\ Vec3_dot(LastCall.args[2], Vec3_sub(trial.prev.eye, LastCall.args[1])) # 0
    /\ trial.cam.n # trial.prev.n
    /\ trial.cam.u # trial.prev.u

----------------------------------------------------------------------------
(* Bounding spheres, extents and geodetic coordinates *)

MinOf(S) == CHOOSE m \in S : \A x \in S : m <= x
MaxOf(S) == CHOOSE m \in S : \A x \in S : m >= x

\* C24: Sphere.setFromBounds sets the center to the midpoint of the min and
\* the max bound on each axis, and the radius to the distance from the center
\* to the min corner.
C24_SetFromBoundsMidpoint ==
    geo.op = "setFromBounds" =>
        LET b == geo.args[1]
            s == geo.result.value
        IN  /\ s.center = << b[1] + (b[4] - b[1]) \div 2,
                             b[2] + (b[5] - b[2]) \div 2,
                             b[3] + (b[6] - b[3]) \div 2 >>
            /\ s.radius2 = DistanceSq(s.center, <<b[1], b[2], b[3]>>)

\* the Cartesian points of the four corners of an extent
CornerPoints(extent) ==
    { Ellipsoid_lonLatToCartesian(Extent_corners(extent)[i]) : i \in 1..4 }

\* C25: for every extent, Sphere.setFromExtent completes with a radius >= 0
\* and a sphere that contains the four projected corners of the extent; the
\* bounds it is built from are the componentwise min and max of the corners.
C25_SetFromExtentContainsCorners ==
    /\ geo.op = "setFromExtent" =>
           /\ ~geo.result.threw
           /\ geo.result.value.radius2 >= 0
           /\ \A p \in CornerPoints(geo.args[1]) :
                  DistanceSq(geo.result.value.center, p) <= geo.result.value.radius2
    /\ geo.op = "getCartesianBounds" =>
           /\ ~geo.result.threw
           /\ \A k \in 1..3 :
                  /\ geo.result.value[k] = MinOf({ p[k] : p \in CornerPoints(geo.args[1]) })
                  /\ geo.result.value[k + 3] = MaxOf({ p[k] : p \in CornerPoints(geo.args[1]) })

\* C26: for every non-empty array, Extent.createByCoordinates returns an
\* extent whose southWest is the componentwise minimum and whose northEast is
\* the componentwise maximum of the coordinates; setByCoordinates and
\* createByCoordinatesArr give the same corners.
C26_CreateByCoordinatesMinMax ==
    (/\ geo.op \in {"createByCoordinates", "createByCoordinatesArr", "setByCoordinates"}
     /\ geo.args[1] # <<>>) =>
        LET arr == geo.args[1]
            lons == { arr[i][1] : i \in 1..Len(arr) }
            lats == { arr[i][2] : i \in 1..Len(arr) }
        IN  /\ ~geo.result.threw
            /\ geo.result.value.southWest.lon = MinOf(lons)
            /\ geo.result.value.southWest.lat = MinOf(lats)
            /\ geo.result.value.northEast.lon = MaxOf(lons)
            /\ geo.result.value.northEast.lat = MaxOf(lats)

\* C27: the height of a LonLat defaults to 0; a.equal(b) is true exactly when
\* lon and lat are equal and, only if b.height is not zero, the heights are
\* equal; new LonLat(1, 2, 0).equal(new LonLat(1, 2)) is true; and equal() is
\* not symmetric when lon and lat agree and exactly one height is zero.
C27_LonLatEqual ==
    geo.op = "equal" =>
        LET x == geo.args[1]
            y == geo.args[2]
            a == LonLat_constructor(x)
            b == LonLat_constructor(y)
        IN  /\ Len(x) < 3 => a.height = 0
            /\ Len(y) < 3 => b.height = 0
            /\ geo.result.value =
                   (/\ a.lon = b.lon
                    /\ a.lat = b.lat
                    /\ (b.height # 0 => a.height = b.height))
            /\ (x = <<1, 2, 0>> /\ y = <<1, 2>>) => geo.result.value
            /\ (/\ a.lon = b.lon
                /\ a.lat = b.lat
                /\ (a.height = 0) # (b.height = 0)) =>
                   /\ geo.result.value = (b.height = 0)
                   /\ LonLat_equal(b, a) # geo.result.value

\* a.equal(b) was called with a.height = 5 and b.height = 0 on the same lon
\* and lat, and answered true
C27_Witness ==
    /\ geo.op = "equal"
    /\ geo.args = << <<1, 2, 5>>, <<1, 2>> >>
    /\ geo.result.value

----------------------------------------------------------------------------
(* The animation loop *)

\* C29: after stop() has returned and until start() is called, no frame is
\* drawn and no animation-frame request of the handler is pending, wherever
\* stop() was called from.
C29_StopEndsLoop ==
    loop.stopped =>
        /\ loop.handler.pending = {}
        /\ ~(loop.op = "frame" /\ loop.wasStopped)

\* C30: at most one animation-frame request of the handler is pending at any
\* time; start() while a request is recorded and start() on a handler that is
\* not initialized schedule nothing; start() after stop() leaves exactly one
\* request.
C30_AtMostOneRequest ==
    /\ Cardinality(loop.handler.pending) <= 1
    /\ (loop.op = "start" /\ loop.before # {}) => loop.handler.pending = loop.before
    /\ (loop.op = "start" /\ ~loop.handler.initialized) => loop.handler.pending = {}
    /\ (loop.op = "start" /\ loop.wasStopped /\ loop.handler.initialized) =>
           Cardinality(loop.handler.pending) = 1

----------------------------------------------------------------------------
(* Stale load responses and texture ownership *)

\* the responses of a load
Responses == {"applyImage", "applyTexture", "textureNotExists"}

\* the last operation cancelled a load that was in flight
LoadCancelled ==
    \/ lastOp = "abortLoading" /\ material.isLoading
    \/ lastOp = "clear" /\ pre.material.isLoading

\* C31: a load response that arrives after the load was cancelled with
\* abortLoading() or the Material was cleared with clear() does not change the
\* Material, also when the segment is still initialized.
C31_StaleResponseIgnored ==
    [][(LoadCancelled /\ lastOp' \in Responses) => material' = material]_vars

\* C32: a texture handle the Material holds as its own is never overwritten
\* by applyImage or applyTexture while the texture is still alive, so every
\* texture created by applyImage is the current texture or has been released.
C32_NoTextureOrphaned ==
    [][(/\ lastOp' \in {"applyImage", "applyTexture"}
        /\ material.textureExists
        /\ material.texture # NULL
        /\ material'.texture # material.texture)
           => material.texture \notin Live(gl)]_vars

----------------------------------------------------------------------------
(* The target on top of the framebuffer stack *)

\* no target is on the stack twice
NoRepeat(stack) ==
    \A i, j \in 1..Len(stack) : i # j => stack[i] # stack[j]

\* the target on top of the stack, if any, is bound and marked active
TopBoundAndActive(st) ==
    st.stack # <<>> =>
        /\ st.gl.bound = st.targets[Stack_current(st.stack)].fbo
        /\ st.targets[Stack_current(st.stack)].active

\* C33: under properly nested activate/deactivate calls on distinct targets,
\* the target on top of the stack stays the bound framebuffer and marked
\* active; after an inner target is deactivated the outer one is bound and
\* marked active again.
C33_TopStaysBoundAndActive ==
    [][(/\ fbLast'.op \in {"activate", "deactivate"}
        /\ NoRepeat(fbs.stack)
        /\ NoRepeat(fbs'.stack)
        /\ TopBoundAndActive(fbs))
           => TopBoundAndActive(fbs')]_vars

\* C34: setSize(w, h, forceDestroy) on the target that is on top of the stack,
\* bound and marked active leaves it marked active, bound and on the stack,
\* with the viewport (0,0,w,h), in the destructive and the non-destructive
\* branch.
C34_SetSizeKeepsActive ==
    [][(/\ fbLast'.op = "setSize"
        /\ Stack_current(fbs.stack) = fbLast'.target
        /\ TopBoundAndActive(fbs))
           => /\ TopBoundAndActive(fbs')
              /\ fbs'.stack = fbs.stack
              /\ fbs'.gl.viewport = <<0, 0, fbLast'.args[1], fbLast'.args[2]>>]_vars

(* What each pose mutator writes *)

\* C36: slide changes the eye and leaves u, v and n as they were; roll turns u
\* and v and leaves n and the eye; pitch turns n and v and leaves u and the
\* eye; yaw turns u and n and leaves v and the eye; look leaves the eye.  The
\* turns are by 90 or 180 degrees, the slides by a vector other than zero.
C36_MutatorWrites ==
    trial.calls # <<>> =>
        LET p == trial.prev
            c == trial.cam
        IN  /\ LastCall.name = "slide" =>
                /\ c.eye # p.eye
                /\ c.u = p.u /\ c.v = p.v /\ c.n = p.n
            /\ LastCall.name = "roll" =>
                /\ c.u # p.u /\ c.v # p.v
                /\ c.n = p.n /\ c.eye = p.eye
            /\ LastCall.name = "pitch" =>
                /\ c.n # p.n /\ c.v # p.v
                /\ c.u = p.u /\ c.eye = p.eye
            /\ LastCall.name = "yaw" =>
                /\ c.u # p.u /\ c.n # p.n
                /\ c.v = p.v /\ c.eye = p.eye
            /\ LastCall.name = "look" => c.eye = p.eye

\* a pitch by a quarter turn was the second call of a frame, after a slide
C36_Witness ==
    /\ Len(trial.calls) = 2
    /\ trial.calls[1].name = "slide"
    /\ LastCall.name = "pitch"
    /\ LastCall.args[1] = 90
    /\ trial.cam.v = trial.prev.n

(* The view part between a pose mutator and update() *)

\* C35: set, look, slide, roll, pitch, yaw and rotateAround write the eye and
\* the basis only: the view matrix, the normal matrix, the matrices of every
\* frustum, eyeHigh and eyeLow stay what they were and no event is dispatched;
\* the next update() takes all of them from the pose and dispatches viewchange.
C35_MutatorsLeaveView ==
    [][/\ viewLast'.op \in Mutators =>
            /\ view'.viewMatrix = view.viewMatrix
            /\ view'.normalMatrix = view.normalMatrix
            /\ view'.frustums = view.frustums
            /\ view'.eyeHigh = view.eyeHigh /\ view'.eyeLow = view.eyeLow
            /\ view'.events = view.events
            /\ camera' = [camera EXCEPT !.eye = camera'.eye, !.u = camera'.u,
                                        !.v = camera'.v, !.n = camera'.n]
       /\ viewLast'.op = "update" =>
            /\ view'.viewMatrix = ViewMatrix(camera)
            /\ view'.normalMatrix = Mat4_toMatrix3(ViewMatrix(camera))
            /\ view'.eyeLow = camera.eye
            /\ \A i \in 1..Len(view'.frustums) :
                   view'.frustums[i].projectionViewMatrix.view = ViewMatrix(camera)
            /\ view'.events[Len(view'.events)] = ViewChangeEvent]_vars

\* rotateAround() has moved the eye and turned the basis after an update(),
\* and the view matrix and the frustums still hold the pose of that update()
C35_Witness ==
    /\ viewLast.op = "rotateAround"
    /\ view.viewMatrix # NoMatrix
    /\ view.viewMatrix # ViewMatrix(camera)
    /\ view.frustums # <<>>
    /\ view.frustums[1].projectionViewMatrix.view = view.viewMatrix
    /\ view.eyeLow # camera.eye

(* The size of the canvas *)

\* C37: with the client size of the canvas unchanged, a frame that follows a
\* frame in which drawFrame() called setSize() does not call it again.
C37_ResizesOnce ==
    [][(loop.op = "frame" /\ loop.resized /\ loop'.op = "frame") => ~loop'.resized]_vars

\* the handler holds the size <<w, h>> cut at MAX_SIZE
SizedAs(h, w, hh) ==
    /\ h.canvas.width = Min2(w, MAX_SIZE)
    /\ h.canvas.height = Min2(hh, MAX_SIZE)
    /\ h.params = [width |-> Min2(w, MAX_SIZE), height |-> Min2(hh, MAX_SIZE)]
    /\ h.oneByHeight = <<1, Min2(hh, MAX_SIZE)>>
    /\ h.gl # NoGl => h.gl.viewport = <<0, 0, Min2(w, MAX_SIZE), Min2(hh, MAX_SIZE)>>

\* C38: after setSize(w, h), called by the application, by drawFrame() or by
\* initialize(), the canvas and the stored params are min(w, 4096) by
\* min(h, 4096), _oneByHeight is 1 over that height and the viewport of the
\* context, once there is one, is (0, 0, width, height); the canvas is never
\* wider or higher than 4096.
C38_SetSizeClamps ==
    /\ loop.op = "setSize" => SizedAs(loop.handler, loop.calls[1], loop.calls[2])
    /\ (loop.op = "initialize" \/ (loop.op = "frame" /\ loop.resized)) =>
           SizedAs(loop.handler, loop.handler.canvas.clientWidth,
                   loop.handler.canvas.clientHeight)
    /\ loop.handler.canvas.width <= MAX_SIZE
    /\ loop.handler.canvas.height <= MAX_SIZE

\* an initialized handler was given a width above MAX_SIZE
C38_Witness ==
    /\ loop.op = "setSize"
    /\ loop.calls[1] > MAX_SIZE
    /\ loop.handler.gl # NoGl
    /\ loop.handler.gl.viewport = <<0, 0, MAX_SIZE, loop.calls[2]>>
    /\ loop.handler.canvas.width = MAX_SIZE

(* The arrays the constructor fills beside the frustums *)

\* C39: nearFarArr holds 2 * frustums.length numbers, the near and the far
\* distance of frustum i at 2i and 2i + 1, and frustumColors holds the picking
\* colour of every frustum, in the order of the frustums.
C39_NearFarFlat ==
    /\ Len(view.nearFarArr) = 2 * Len(view.frustums)
    /\ \A i \in 1..Len(view.frustums) :
           /\ view.nearFarArr[2 * i - 1] = view.frustums[i].near
           /\ view.nearFarArr[2 * i] = view.frustums[i].far
    /\ Len(view.frustumColors) = 3 * Len(view.frustums)
    /\ \A i \in 1..Len(view.frustums) :
           SubSeq(view.frustumColors, 3 * i - 2, 3 * i) = view.frustums[i].pickingColorU

(* Tiles and their children *)

\* the extent of the child of tile <<x, y, z>> in column i and row j
ChildOf(t, i, j) == Extent_fromTile(2 * t[1] + i, 2 * t[2] + j, t[3] + 1, Omitted, Omitted)

\* C40: the extent fromTile(x, y, z) returns has southWest <= northEast, and
\* its four children at zoom z + 1 partition it: the outer edges of the
\* children are the edges of the parent, and the children of neighbouring
\* columns and rows share the edge between them.
C40_ChildrenPartition ==
    (geo.op = "fromTile" /\ ~geo.result.threw) =>
        LET p == geo.result.value
            t == geo.args
        IN  /\ p.southWest.lon <= p.northEast.lon
            /\ p.southWest.lat <= p.northEast.lat
            /\ \A j \in {0, 1} :
                   /\ ChildOf(t, 0, j).southWest.lon = p.southWest.lon
                   /\ ChildOf(t, 0, j).northEast.lon = ChildOf(t, 1, j).southWest.lon
                   /\ ChildOf(t, 1, j).northEast.lon = p.northEast.lon
            /\ \A i \in {0, 1} :
                   /\ ChildOf(t, i, 0).northEast.lat = p.northEast.lat
                   /\ ChildOf(t, i, 0).southWest.lat = ChildOf(t, i, 1).northEast.lat
                   /\ ChildOf(t, i, 1).southWest.lat = p.southWest.lat

============================================================================
